---------------------------- MODULE Spec2Model ----------------------------
(***************************************************************************)
(* Model of the taranis charging-station simulator.                        *)
(*                                                                         *)
(*   detail.rs  ChargingDetail : the per-request session state machine     *)
(*   price.rs   Prices         : the tariff table and the pricing walk     *)
(*   charge.rs  Charge         : the station, its queue and working flag   *)
(*   time.rs    get_mock_now   : the virtual, optionally accelerated clock *)
(*   main.rs    work / handle  : the event loop and its two tickers        *)
(*                                                                         *)
(* Representation.                                                         *)
(*   - Instants are integers, milliseconds.  A DateTime is the number of   *)
(*     milliseconds since 00:00 UTC of day 0; a NaiveTime is 0..DayMs-1.   *)
(*   - Option<T> is a sequence of length at most one: <<>> is None and     *)
(*     <<v>> is Some(v).                                                   *)
(*   - Energy (request_amount, already_charged) is held in kW*s, that is   *)
(*     kWh * 3600, so that hours * power is an exact integer.              *)
(*   - Money (charge_cost, service_fee, total_cost) is held in 1/100 of    *)
(*     the currency unit, the precision round_to_precision(_, 2) keeps.    *)
(*     Tariff prices are 1/100 currency units per kWh.                     *)
(*   - f64 arithmetic is modelled exactly (as rationals), not with its     *)
(*     binary rounding error.                                              *)
(*   - A panic!, an unwrap() of None/Err or a failed library assertion     *)
(*     is the result field ok = FALSE; the event loop then stops with      *)
(*     pc = "panicked".                                                    *)
(***************************************************************************)
EXTENDS Integers, Sequences, FiniteSets, TLC

None == <<>>
Some(v) == <<v>>
IsSome(o) == Len(o) = 1
Unwrap(o) == o[1]

Max(a, b) == IF a >= b THEN a ELSE b
Min(a, b) == IF a <= b THEN a ELSE b

\* Division truncating toward zero: Rust's `as i64` on an f64 quotient and
\* chrono's Duration::num_seconds / num_milliseconds.
TruncDiv(a, b) == IF a >= 0 THEN a \div b ELSE -((-a) \div b)

SecMs == 1000
HourSecs == 3600
DayMs == 24 * HourSecs * SecMs

-----------------------------------------------------------------------------
(* Configuration: conf.rs defaults.                                        *)

\* default_power: 30 kW
Power == 30
\* default_update_interval: 5000 ms
UpdateInterval == 5000
\* default_tz: Asia/Shanghai, UTC+8
TzOffsetHours == 8
TzOffsetMs == TzOffsetHours * HourSecs * SecMs
\* default_charge_type
StationType == "Fast"
ChargeTypes == {"Fast", "Slow"}

-----------------------------------------------------------------------------
(* detail.rs: ChargingDetail                                               *)

Statuses == {"Waiting", "Charging", "Completed", "Interrupted"}

\* ChargingDetail::test_new, with the id, the requested energy and the type
\* the peer chooses.
NewDetail(id, amount, ty) ==
  [id |-> id, request_amount |-> amount, type_ |-> ty, already_charged |-> 0,
   start_time |-> None, last_update_time |-> None, end_time |-> None,
   charge_cost |-> 0, service_fee |-> 0, total_cost |-> 0,
   status |-> "Waiting"]

\* is_ready without its comparison of the status.
is_ready_any_status(d) ==
  /\ d.already_charged = 0
  /\ d.start_time = None
  /\ d.last_update_time = None
  /\ d.end_time = None
  /\ d.charge_cost = 0
  /\ d.service_fee = 0
  /\ d.total_cost = 0

is_ready(d) ==
  /\ d.already_charged = 0
  /\ d.start_time = None
  /\ d.last_update_time = None
  /\ d.end_time = None
  /\ d.charge_cost = 0
  /\ d.service_fee = 0
  /\ d.total_cost = 0
  /\ d.status = "Waiting"

\* round_to_precision(charge_cost + service_fee, 2): both operands are whole
\* hundredths already, so the sum is.
TotalOf(charge_cost, service_fee) == charge_cost + service_fee

\* start without its check of the status.
start_unchecked(d, time) ==
  [ok |-> TRUE,
   d  |-> [d EXCEPT !.start_time = Some(time),
                    !.last_update_time = Some(time),
                    !.status = "Charging"]]

\* interrupt without its check of the status.
interrupt_unchecked(d, charged, charge_cost, service_fee, time) ==
  [ok |-> TRUE,
   d  |-> [d EXCEPT !.last_update_time = Some(time),
                    !.already_charged = charged,
                    !.charge_cost = charge_cost,
                    !.service_fee = service_fee,
                    !.total_cost = charge_cost + service_fee,
                    !.status = "Interrupted"]]

\* Every session operation returns [ok, d]: ok = FALSE is the panic, and d
\* is the session as the panic leaves it.
start(d, time) ==
  IF d.status # "Waiting"
  THEN [ok |-> FALSE, d |-> d]
  ELSE [ok |-> TRUE,
        d  |-> [d EXCEPT !.start_time = Some(time),
                         !.last_update_time = Some(time),
                         !.status = "Charging"]]

\* update_state that also restarts the session at `time`.
update_state_restart(d, charged, charge_cost, service_fee, time) ==
  IF d.status # "Charging"
  THEN [ok |-> FALSE, d |-> d]
  ELSE [ok |-> TRUE,
        d  |-> [d EXCEPT !.last_update_time = Some(time),
                         !.start_time = Some(time),
                         !.already_charged = charged,
                         !.charge_cost = charge_cost,
                         !.service_fee = service_fee,
                         !.total_cost = TotalOf(charge_cost, service_fee)]]

update_state(d, charged, charge_cost, service_fee, time) ==
  IF d.status # "Charging"
  THEN [ok |-> FALSE, d |-> d]
  ELSE [ok |-> TRUE,
        d  |-> [d EXCEPT !.last_update_time = Some(time),
                         !.already_charged = charged,
                         !.charge_cost = charge_cost,
                         !.service_fee = service_fee,
                         !.total_cost = TotalOf(charge_cost, service_fee)]]

\* complete that leaves end_time unset.
complete_open(d, charged, charge_cost, service_fee, time) ==
  IF d.status # "Charging"
  THEN [ok |-> FALSE, d |-> d]
  ELSE [ok |-> TRUE,
        d  |-> [d EXCEPT !.last_update_time = Some(time),
                         !.already_charged = charged,
                         !.charge_cost = charge_cost,
                         !.service_fee = service_fee,
                         !.total_cost = TotalOf(charge_cost, service_fee),
                         !.status = "Completed"]]

complete(d, charged, charge_cost, service_fee, time) ==
  IF d.status # "Charging"
  THEN [ok |-> FALSE, d |-> d]
  ELSE [ok |-> TRUE,
        d  |-> [d EXCEPT !.last_update_time = Some(time),
                         !.already_charged = charged,
                         !.charge_cost = charge_cost,
                         !.service_fee = service_fee,
                         !.total_cost = TotalOf(charge_cost, service_fee),
                         !.end_time = Some(time),
                         !.status = "Completed"]]

interrupt(d, charged, charge_cost, service_fee, time) ==
  IF d.status # "Charging" /\ d.status # "Waiting"
  THEN [ok |-> FALSE, d |-> d]
  ELSE [ok |-> TRUE,
        d  |-> [d EXCEPT !.last_update_time = Some(time),
                         !.already_charged = charged,
                         !.charge_cost = charge_cost,
                         !.service_fee = service_fee,
                         !.total_cost = TotalOf(charge_cost, service_fee),
                         !.status = "Interrupted"]]

\* [ok, v]: panics in the Waiting status, and on the unwrap of a start_time
\* that was never set.
clone_start_time(d) ==
  IF d.status = "Waiting" \/ d.start_time = None
  THEN [ok |-> FALSE, v |-> 0]
  ELSE [ok |-> TRUE, v |-> Unwrap(d.start_time)]

\* get_estimated_end_time that takes the whole request as still to charge.
get_estimated_end_time_whole(d, power) ==
  IF d.status # "Charging"
  THEN None
  ELSE Some(Unwrap(d.start_time) + SecMs * TruncDiv(d.request_amount, power))

\* Option<DateTime>.  remaining_amount / power hours, times 3600 and cast to
\* whole seconds, is (request_amount - already_charged) / power in kW*s.
get_estimated_end_time(d, power) ==
  IF d.status # "Charging"
  THEN None
  ELSE Some(Unwrap(d.start_time)
            + SecMs * TruncDiv(d.request_amount - d.already_charged, power))

-----------------------------------------------------------------------------
(* price.rs: Prices                                                        *)

MIDNIGHT == 0

Hms(h, m, s) == ((h * 60 + m) * 60 + s) * SecMs

\* TimePeriod {start, end, price}
Period(s, e, p) == [start |-> s, end |-> e, price |-> p]

\* DEFAULT_PRICES: valley 0.4, flat 0.7, peak 1.0, service fee 0.8.
DEFAULT_PRICES ==
  [periods |-> << Period(MIDNIGHT, Hms(7, 0, 0), 40),
                  Period(Hms(7, 0, 0), Hms(10, 0, 0), 70),
                  Period(Hms(10, 0, 0), Hms(15, 0, 0), 100),
                  Period(Hms(15, 0, 0), Hms(18, 0, 0), 70),
                  Period(Hms(18, 0, 0), Hms(21, 0, 0), 100),
                  Period(Hms(21, 0, 0), Hms(23, 0, 0), 70),
                  Period(Hms(23, 0, 0), MIDNIGHT, 40) >>,
   service_fee |-> 80,
   is_optimized |-> TRUE]

\* Prices::new
NewPrices == [periods |-> <<>>, service_fee |-> 0, is_optimized |-> FALSE]

\* CrossesMidnight without the comparison of the end with midnight.
CrossesMidnightAny(period) == period.start > period.end

\* optimize, the first loop: a period crosses midnight when it starts after
\* it ends and does not end at midnight.
CrossesMidnight(period) == period.start > period.end /\ period.end # MIDNIGHT

SplitPeriod(period) ==
  IF CrossesMidnight(period)
  THEN << Period(period.start, MIDNIGHT, period.price),
          Period(MIDNIGHT, period.end, period.price) >>
  ELSE << period >>

\* new_periods after the first loop.
RECURSIVE SplitAll(_)
SplitAll(ps) ==
  IF ps = <<>> THEN <<>> ELSE SplitPeriod(Head(ps)) \o SplitAll(Tail(ps))

\* cnt after the first loop.
CrossCount(ps) == Cardinality({ i \in DOMAIN ps : CrossesMidnight(ps[i]) })

InsertAt(sorted, period, k) ==
  SubSeq(sorted, 1, k) \o << period >> \o SubSeq(sorted, k + 1, Len(sorted))

\* sort_by(|a, b| a.start.cmp(&b.start)): stable, so a period goes behind
\* every earlier one that starts no later.
RECURSIVE SortByStart(_)
SortByStart(ps) ==
  IF ps = <<>> THEN <<>>
  ELSE InsertAt(SortByStart(SubSeq(ps, 1, Len(ps) - 1)), ps[Len(ps)],
                Cardinality({ i \in 1..(Len(ps) - 1) : ps[i].start <= ps[Len(ps)].start }))

\* The merge loop's state: [ok, current, merged]; ok = FALSE is the return
\* of the overlap error.
MergeState(ok, current, merged) == [ok |-> ok, current |-> current, merged |-> merged]

\* One iteration of the merge loop with current_period = Some(current).
MergeStep(current, merged, period) ==
  IF period.start < current.end
  THEN IF period.price # current.price
       THEN MergeState(FALSE, Some(current), merged)
       ELSE MergeState(TRUE, Some([current EXCEPT !.end = period.end]), merged)
  ELSE IF period.start > current.end
  THEN MergeState(TRUE, Some(period),
                  merged \o << current, Period(current.end, period.start, 0) >>)
  ELSE MergeState(TRUE, Some(period), Append(merged, current))

\* One iteration with current_period = None.
MergeFirst(merged, period) ==
  IF period.start # MIDNIGHT
  THEN MergeState(TRUE, Some(period),
                  Append(merged, Period(MIDNIGHT, period.start, 0)))
  ELSE MergeState(TRUE, Some(period), merged)

RECURSIVE MergeLoop(_, _)
MergeLoop(ps, m) ==
  IF ps = <<>> \/ ~m.ok THEN m
  ELSE IF m.current = None
  THEN MergeLoop(Tail(ps), MergeFirst(m.merged, Head(ps)))
  ELSE MergeLoop(Tail(ps), MergeStep(Unwrap(m.current), m.merged, Head(ps)))

\* After the push of the last current period: the gap up to midnight.
CloseDay(merged) ==
  IF merged[Len(merged)].end # MIDNIGHT
  THEN Append(merged, Period(merged[Len(merged)].end, MIDNIGHT, 0))
  ELSE merged

\* What optimize returns and leaves: [ok, err, p], p the table afterwards.
Optimized(ok, err, p) == [ok |-> ok, err |-> err, p |-> p]

OptimizeMerged(prices, m) ==
  IF ~m.ok THEN Optimized(FALSE, "Overlap", prices)
  ELSE Optimized(TRUE, "",
         [prices EXCEPT !.periods = CloseDay(Append(m.merged, Unwrap(m.current))),
                        !.is_optimized = TRUE])

optimize(prices) ==
  IF prices.periods = <<>> THEN Optimized(TRUE, "", prices)
  ELSE IF CrossCount(prices.periods) > 1
  THEN Optimized(FALSE, "MultipleMidnightCrossings", prices)
  ELSE OptimizeMerged(prices,
         MergeLoop(SortByStart(SplitAll(prices.periods)),
                   MergeState(TRUE, None, <<>>)))

RECURSIVE SeqSum(_)
SeqSum(s) == IF s = <<>> THEN 0 ELSE Head(s) + SeqSum(Tail(s))

\* (b - a).num_seconds() of two times of day.
NumSeconds(a, b) == TruncDiv(b - a, SecMs)

\* 24.0 + (midnight - time).num_seconds() / 3600.0, in seconds.
hours_to_midnight(time) == 24 * HourSecs + NumSeconds(time, MIDNIGHT)

\* f64::round of n / d: to the nearest integer, halves away from zero.
RoundDiv(n, d) ==
  IF n >= 0
  THEN (n \div d) + (IF 2 * (n % d) >= d THEN 1 ELSE 0)
  ELSE -(((-n) \div d) + (IF 2 * ((-n) % d) >= d THEN 1 ELSE 0))

\* round_to_precision(value, 2) of a sum the day walk accumulated.  The walk
\* adds seconds * price * power where the code adds hours * price * power, so
\* its total is HourSecs times the code's value in hundredths.
round_to_precision(total) == RoundDiv(total, HourSecs)

\* PeriodCost without the service fee.
PeriodCostNoFee(prices, secs, price, power) == secs * price * power

\* One period's share: duration * period.price * power plus
\* service_fee * power * duration.
PeriodCost(prices, secs, price, power) ==
  secs * price * power + prices.service_fee * power * secs

\* [ok, v, err]: ok = FALSE is the Err, err the kind of its message.
calc_day_price(prices, start_t, end_t, power) ==
  IF ~prices.is_optimized THEN [ok |-> FALSE, v |-> 0, err |-> "NotOptimized"]
  ELSE IF start_t >= end_t THEN [ok |-> FALSE, v |-> 0, err |-> "InvalidRange"]
  ELSE
    LET ps == prices.periods
        n == Len(ps)
        last == ps[n]
        body == [i \in 1..(n - 1) |->
                   IF ps[i].start < end_t /\ ps[i].end > start_t
                   THEN PeriodCost(prices,
                          NumSeconds(Max(start_t, ps[i].start), Min(end_t, ps[i].end)),
                          ps[i].price, power)
                   ELSE 0]
        tail == IF end_t > last.start
                THEN PeriodCost(prices,
                       NumSeconds(Max(start_t, last.start), end_t),
                       last.price, power)
                ELSE 0
    IN [ok |-> TRUE, v |-> SeqSum(body) + tail, err |-> ""]

calc_day_price_until_midnight(prices, start_t, power) ==
  IF ~prices.is_optimized THEN [ok |-> FALSE, v |-> 0, err |-> "NotOptimized"]
  ELSE
    LET ps == prices.periods
        n == Len(ps)
        last == ps[n]
        body == [i \in 1..(n - 1) |->
                   IF ps[i].end > start_t
                   THEN PeriodCost(prices,
                          NumSeconds(Max(start_t, ps[i].start), ps[i].end),
                          ps[i].price, power)
                   ELSE 0]
        tail == PeriodCost(prices,
                  hours_to_midnight(Max(start_t, last.start)),
                  last.price, power)
    IN [ok |-> TRUE, v |-> SeqSum(body) + tail, err |-> ""]

\* The `while date < end.date()` loop of calc_price: [total, start_time]
\* after the whole days before the last one.
RECURSIVE CalcPriceDays(_, _, _, _, _, _)
CalcPriceDays(prices, date, end_date, start_t, power, total) ==
  IF date < end_date
  THEN CalcPriceDays(prices, date + 1, end_date, MIDNIGHT, power,
         total + calc_day_price_until_midnight(prices, start_t, power).v)
  ELSE [total |-> total, start_time |-> start_t]

\* calc_price, the last line: total_price += calc_day_price(..)?; Ok(round).
CalcPriceSum(total, lastday) ==
  IF ~lastday.ok THEN [ok |-> FALSE, v |-> 0, err |-> lastday.err]
  ELSE [ok |-> TRUE, v |-> round_to_precision(total + lastday.v), err |-> ""]

\* CalcPriceLast without the comparison of the end time with midnight.
CalcPriceLastAlways(prices, days, end_time, power) ==
  CalcPriceSum(days.total,
               calc_day_price(prices, days.start_time, end_time, power))

\* calc_price, after the loop: the last day, unless the range ends at midnight.
CalcPriceLast(prices, days, end_time, power) ==
  IF end_time # MIDNIGHT
  THEN CalcPriceSum(days.total,
                    calc_day_price(prices, days.start_time, end_time, power))
  ELSE [ok |-> TRUE, v |-> round_to_precision(days.total), err |-> ""]

\* calc_price without the comparison of start with end.
calc_price_unranged(prices, start_dt, end_dt, power) ==
  IF ~prices.is_optimized THEN [ok |-> FALSE, v |-> 0, err |-> "NotOptimized"]
  ELSE CalcPriceLast(prices,
         CalcPriceDays(prices, start_dt \div DayMs, end_dt \div DayMs,
                       start_dt % DayMs, power, 0),
         end_dt % DayMs, power)

\* Prices::calc_price over two NaiveDateTimes: [ok, v], v in hundredths.
calc_price(prices, start_dt, end_dt, power) ==
  IF ~prices.is_optimized THEN [ok |-> FALSE, v |-> 0, err |-> "NotOptimized"]
  ELSE IF start_dt >= end_dt THEN [ok |-> FALSE, v |-> 0, err |-> "InvalidRange"]
  ELSE CalcPriceLast(prices,
         CalcPriceDays(prices, start_dt \div DayMs, end_dt \div DayMs,
                       start_dt % DayMs, power, 0),
         end_dt % DayMs, power)

\* PRICESS: the table the station prices with; the built-in default table
\* when no price file is configured.
PRICESS == DEFAULT_PRICES

\* The table with no service fee, and the table with every period free.
EnergyOnly(prices) == [prices EXCEPT !.service_fee = 0]
FeeOnly(prices) ==
  [prices EXCEPT !.periods =
     [i \in 1..Len(prices.periods) |-> [prices.periods[i] EXCEPT !.price = 0]]]

CostPair(energy, fee) == [ok |-> energy.ok /\ fee.ok, v |-> <<energy.v, fee.v>>]

\* The station's pricing entry point, which returns the energy cost and the
\* service fee of [start, end) separately, priced in the configured time
\* zone.  Its body is not part of the sources; it is modelled on the pricing
\* walk above: the energy cost is the walk with no service fee, the service
\* fee is the walk with every period price zero.
calc_price_with_tz(start_dt, end_dt, power) ==
  CostPair(calc_price(EnergyOnly(PRICESS), start_dt + TzOffsetMs,
                      end_dt + TzOffsetMs, power),
           calc_price(FeeOnly(PRICESS), start_dt + TzOffsetMs,
                      end_dt + TzOffsetMs, power))

-----------------------------------------------------------------------------
(* charge.rs: Charge                                                       *)
(*                                                                         *)
(* A station value is [queue, working]; charge_id, type_, power and size   *)
(* never change after Charge::new.  Every operation takes the station, its *)
(* arguments and the clock reading `now`, and returns                      *)
(* [queue, working, ret, ok]: the station it leaves, its return value and  *)
(* ok = FALSE when it panicked (the station is then as the panic left it). *)
(* An operation's second definition (..With) is the rest of its body once  *)
(* the cost and the energy of the session are computed.                    *)

RemoveAt(q, pos) == SubSeq(q, 1, pos - 1) \o SubSeq(q, pos + 1, Len(q))

Result(q, w, ret, ok) == [queue |-> q, working |-> w, ret |-> ret, ok |-> ok]

ChargedSince(st, time, power) ==
  IF ~st.ok THEN [ok |-> FALSE, v |-> 0]
  ELSE [ok |-> TRUE, v |-> TruncDiv(time - st.v, SecMs) * power]

\* already_charged counting from the last update instead of the start.
already_charged_since_update(power, d, time) ==
  IF d.status = "Waiting" THEN [ok |-> FALSE, v |-> 0]
  ELSE ChargedSince([ok |-> TRUE, v |-> Unwrap(d.last_update_time)], time, power)

\* fn already_charged: [ok, v], v = hours * power in kW*s.
already_charged(power, d, time) == ChargedSince(clone_start_time(d), time, power)

PricedSince(st, now, power) ==
  IF ~st.ok THEN [ok |-> FALSE, v |-> <<0, 0>>]
  ELSE calc_price_with_tz(st.v, now, power)

\* calc_price_with_tz(detail.clone_start_time(), now, power).unwrap()
CostOf(power, d, now) == PricedSince(clone_start_time(d), now, power)

\* add_detail comparing the length with <= where the code has <.
add_detail_le(st, size, d) ==
  IF d.type_ # StationType
  THEN Result(st.queue, st.working, None, TRUE)
  ELSE IF Len(st.queue) <= size
  THEN Result(Append(st.queue, d), st.working, None, TRUE)
  ELSE Result(st.queue, st.working, None, TRUE)

add_detail(st, size, d) ==
  IF d.type_ # StationType
  THEN Result(st.queue, st.working, None, TRUE)
  ELSE IF Len(st.queue) < size
  THEN Result(Append(st.queue, d), st.working, None, TRUE)
  ELSE Result(st.queue, st.working, None, TRUE)

StartWith(st, r) == Result([st.queue EXCEPT ![1] = r.d], TRUE, None, r.ok)

\* start_charging that starts the session at the back of the queue.
start_charging_back(st, now) ==
  IF st.queue = <<>> \/ st.working
  THEN Result(st.queue, st.working, None, TRUE)
  ELSE Result([st.queue EXCEPT ![Len(st.queue)] =
                 start(st.queue[Len(st.queue)], now).d], TRUE,
              None, start(st.queue[Len(st.queue)], now).ok)

\* start_charging that starts the head and forgets the working flag.
start_charging_idle(st, now) ==
  IF st.queue = <<>> \/ st.working
  THEN Result(st.queue, st.working, None, TRUE)
  ELSE Result([st.queue EXCEPT ![1] = start(Head(st.queue), now).d], FALSE,
              None, start(Head(st.queue), now).ok)

start_charging(st, now) ==
  IF st.queue = <<>> THEN Result(st.queue, st.working, None, TRUE)
  ELSE IF st.working THEN Result(st.queue, st.working, None, TRUE)
  ELSE StartWith(st, start(Head(st.queue), now))

UpdateDone(st, r) == Result([st.queue EXCEPT ![1] = r.d], st.working, None, r.ok)

UpdateWith(st, cost, ac, now) ==
  IF ~cost.ok \/ ~ac.ok
  THEN Result(st.queue, st.working, None, FALSE)
  ELSE UpdateDone(st, update_state(Head(st.queue), ac.v, cost.v[1], cost.v[2], now))

update_charging(st, power, now) ==
  IF st.queue = <<>> THEN Result(st.queue, st.working, None, TRUE)
  ELSE IF ~st.working THEN Result(st.queue, st.working, None, TRUE)
  ELSE UpdateWith(st, CostOf(power, Head(st.queue), now),
                  already_charged(power, Head(st.queue), now), now)

CompleteDone(st, r) ==
  Result(Tail(st.queue), FALSE, IF r.ok THEN Some(r.d) ELSE None, r.ok)

CompleteWith(st, cost, ac, now) ==
  IF ~cost.ok \/ ~ac.ok
  THEN Result(Tail(st.queue), FALSE, None, FALSE)
  ELSE CompleteDone(st, complete(Head(st.queue), ac.v, cost.v[1], cost.v[2], now))

\* complete_charging without its check of the working flag.
complete_charging_unguarded(st, power, now) ==
  IF st.queue = <<>> THEN Result(st.queue, st.working, None, TRUE)
  ELSE CompleteWith(st, CostOf(power, Head(st.queue), now),
                    already_charged(power, Head(st.queue), now), now)

\* ret: Option<ChargingDetail>
complete_charging(st, power, now) ==
  IF st.queue = <<>> THEN Result(st.queue, st.working, None, TRUE)
  ELSE IF ~st.working THEN Result(st.queue, st.working, None, TRUE)
  ELSE CompleteWith(st, CostOf(power, Head(st.queue), now),
                    already_charged(power, Head(st.queue), now), now)

\* The first position whose id is detail_id, 0 when there is none.
Position(q, detail_id) ==
  IF \E i \in 1..Len(q) : q[i].id = detail_id
  THEN CHOOSE i \in 1..Len(q) :
         /\ q[i].id = detail_id
         /\ \A j \in 1..(i - 1) : q[j].id # detail_id
  ELSE 0

\* CancelDone without the queue.remove(pos).
CancelDoneKeep(st, pos, w, r) ==
  IF ~r.ok
  THEN Result(st.queue, st.working, <<"Err">>, FALSE)
  ELSE Result(st.queue, w, <<"Ok", r.d>>, TRUE)

CancelDone(st, pos, w, r) ==
  IF ~r.ok
  THEN Result(st.queue, st.working, <<"Err">>, FALSE)
  ELSE Result(RemoveAt(st.queue, pos), w, <<"Ok", r.d>>, TRUE)

\* CancelHead without the `self.working = false`.
CancelHeadStillWorking(st, cost, ac, now) ==
  IF ~cost.ok \/ ~ac.ok
  THEN Result(st.queue, st.working, <<"Err">>, FALSE)
  ELSE CancelDone(st, 1, st.working,
                  interrupt(Head(st.queue), ac.v, cost.v[1], cost.v[2], now))

\* pos == 0 in the code: the head, interrupted with its cost to date.
CancelHead(st, cost, ac, now) ==
  IF ~cost.ok \/ ~ac.ok
  THEN Result(st.queue, st.working, <<"Err">>, FALSE)
  ELSE CancelDone(st, 1, FALSE,
                  interrupt(Head(st.queue), ac.v, cost.v[1], cost.v[2], now))

\* Any other position: interrupted with no cost.
CancelOther(st, pos, ac, now) ==
  IF ~ac.ok
  THEN Result(st.queue, st.working, <<"Err">>, FALSE)
  ELSE CancelDone(st, pos, st.working, interrupt(st.queue[pos], ac.v, 0, 0, now))

CancelAt(st, power, pos, now) ==
  IF pos = 0 THEN Result(st.queue, st.working, <<"Err">>, TRUE)
  ELSE IF pos = 1
  THEN CancelHead(st, CostOf(power, st.queue[pos], now),
                  already_charged(power, st.queue[pos], now), now)
  ELSE CancelOther(st, pos, already_charged(power, st.queue[pos], now), now)

\* ret: <<"Ok", detail>> or <<"Err">>
cancel_charging(st, power, detail_id, now) ==
  CancelAt(st, power, Position(st.queue, detail_id), now)

CloseDone(r) == Result(<<>>, FALSE, IF r.ok THEN Some(r.d) ELSE None, r.ok)

CloseWith(st, cost, ac, now) ==
  IF ~cost.ok \/ ~ac.ok
  THEN Result(<<>>, FALSE, None, FALSE)
  ELSE CloseDone(interrupt(Head(st.queue), ac.v, cost.v[1], cost.v[2], now))

\* ret: Option<ChargingDetail>
close(st, power, now) ==
  IF st.queue = <<>> THEN Result(<<>>, FALSE, None, TRUE)
  ELSE CloseWith(st, CostOf(power, Head(st.queue), now),
                 already_charged(power, Head(st.queue), now), now)

breakdown(st, power, now) == close(st, power, now)

is_working(st) == st.working

get_queue_size(st) == Len(st.queue)

\* Option<&ChargingDetail>
get_charging_detail_ref(st) == IF st.queue = <<>> THEN None ELSE Some(Head(st.queue))

\* `millis as u64` of a negative i64 is 2^64 - |millis|; divided by any
\* acceleration factor it stays far beyond every instant the model reaches.
\* TLC's integers are 32 bits wide, so every such value is
\* represented by FarFuture.
FarFuture == 1024 * 1024 * 1024

AsU64Div(millis, speed) == IF millis < 0 THEN FarFuture ELSE millis \div speed

\* The 100 ms the code adds "to avoid precision problems".
MarginMs == 100

IntervalTo(time, speed, now) ==
  IF IsSome(time)
  THEN AsU64Div((Unwrap(time) - now) + MarginMs, speed)
  ELSE 0

\* u64, milliseconds of real time.
complete_interval(st, power, speed, now) ==
  IF st.queue = <<>> THEN 0
  ELSE IF ~st.working THEN 0
  ELSE IntervalTo(get_estimated_end_time(Head(st.queue), power), speed, now)

-----------------------------------------------------------------------------
(* State                                                                   *)

VARIABLES
  conf,            \* CONF: [speed, size, start_time], fixed for the run
  wall,            \* real milliseconds elapsed since REAL_START_TIME
  queue,           \* Charge.queue
  working,         \* Charge.working
  update_tiker,    \* work(): Option<Interval>, [next, period] in real ms
  complete_tiker,  \* work(): Option<Interval>
  is_closed,       \* handle(): static IS_CLOSED
  pc,              \* "running", "stopped" (the loop broke) or "panicked"
  sent,            \* the messages the last handled event sent, in order
  nmsg,            \* inbound messages, signals or direct calls so far
  call,            \* the last event handled or operation called: [op, arg, ret, ok]
  detail,          \* the session the session-level operations are called on
  prices,          \* the Prices table the pricing operations are called on
  delivery,        \* the sends of the last handler that returned Err, and
                   \* what the handler leaves when every send returns Ok
  clock            \* time.rs: the cells of REAL_START_TIME and MOCK_TIME

vars == << conf, wall, queue, working, update_tiker, complete_tiker,
           is_closed, pc, sent, nmsg, call, detail, prices, delivery, clock >>

-----------------------------------------------------------------------------
(* Bounds and inputs                                                       *)

\* The largest queue size (CONF.charge.size) the runs are configured with.
MaxSize == 2
\* Session ids the peer uses.
MaxId == 2
\* Real milliseconds a run lasts.
MaxWall == 12000
\* Inbound messages and signals a run of the event loop receives.
MaxMsgs == 3
\* Direct calls a run of the station or session operations makes.
MaxCalls == 4
\* Periods of a price table read from the price file.
MaxPeriods == 2
\* The last calendar day a priced range touches, the first being day 0.
MaxDay == 2

\* CONF.time.speed
Speeds == {1, 200}
\* CONF.time.start_time
StartTimes == {Some(Hms(15, 50, 0))}
\* The wall-clock instant the process starts at: 23:59:55 in the configured
\* time zone, so that sessions run over midnight.
RealStart == Hms(15, 59, 55)
\* Requested energies, kW*s: nothing, 6 2/3 s and 1500 s at 30 kW.
Amounts == {0, 200, 45000}
\* Real milliseconds from one handled event to the next inbound message.
Delays == {1000, 2500}

Confs == [speed : Speeds, size : 0..MaxSize, start_time : StartTimes]

-----------------------------------------------------------------------------
(* time.rs: get_mock_now                                                   *)

\* The two LazyLock cells before their first use.
Unlatched == [real_start_time |-> None, mock_time |-> None]

\* REAL_START_TIME
REAL_START_TIME == RealStart

\* MOCK_TIME: CONF.time.start_time.unwrap_or_else(Utc::now)
MOCK_TIME == IF IsSome(conf.start_time) THEN Unwrap(conf.start_time) ELSE RealStart

\* The virtual clock read at real instant REAL_START_TIME + w.
get_mock_now(w) ==
  IF conf.speed = 1
  THEN REAL_START_TIME + w
  ELSE MOCK_TIME + w * conf.speed

Now == get_mock_now(wall)

-----------------------------------------------------------------------------
(* main.rs: the event loop                                                 *)
(*                                                                         *)
(* One action is one iteration of the select! loop of work(): the branch   *)
(* taken and the whole handler it runs.  Handlers take no time: an event   *)
(* is handled at the instant it becomes ready, so a ticker fires at its    *)
(* deadline and a message is handled no later than the next deadline; two  *)
(* events ready at the same instant are taken in either order.             *)

Msg(type, data) == [type_ |-> type, data |-> data]

\* Interval: the next tick and the period, real milliseconds, and the ticks
\* it has delivered since interval_at created it.
Ticker(next, period) == [next |-> next, period |-> period, ticks |-> 0]

\* [ok, v].  tokio's interval() asserts a non-zero period, so the zero
\* duration branch panics; otherwise interval_at(now + duration, duration).
set_ticker(duration, w) ==
  IF duration = 0
  THEN [ok |-> FALSE, v |-> None]
  ELSE [ok |-> TRUE, v |-> Some(Ticker(w + duration, duration))]

\* An Interval that is spent once it has ticked.
TickedOnce(t) == None

\* Interval::tick: the ticker after it fired (missed ticks burst); the same
\* Interval stays in the Option and is due again one period later.
Ticked(t) ==
  Some([Unwrap(t) EXCEPT !.next = @ + Unwrap(t).period, !.ticks = @ + 1])

\* The loop's state after a handler: the station, the two tickers, the
\* messages the handler sent and whether it returned (ok) or panicked.
Loop(q, w, ut, ct, msgs, ok) ==
  [queue |-> q, working |-> w, update_tiker |-> ut, complete_tiker |-> ct,
   sent |-> msgs, ok |-> ok]

\* The same without set_ticker(update_ticker, ..).
ActivatedNoUpdate(s1, t, ut, ct, msgs, w) ==
  IF s1.ok /\ t.ok
  THEN Loop(s1.queue, s1.working, ut, t.v,
            Append(msgs, Msg("update", get_charging_detail_ref(s1))), TRUE)
  ELSE Loop(s1.queue, s1.working, ut, ct, msgs, FALSE)

\* if not_working_check(..) { send_update(head); set_ticker(update_ticker, ..) }
\* once start_charging left s1 and set_ticker(complete_ticker, ..) returned t.
Activated(s1, t, ut, ct, msgs, w) ==
  IF s1.ok /\ t.ok
  THEN Loop(s1.queue, s1.working, set_ticker(UpdateInterval, w).v, t.v,
            Append(msgs, Msg("update", get_charging_detail_ref(s1))), TRUE)
  ELSE Loop(s1.queue, s1.working, ut, ct, msgs, FALSE)

\* not_working_check that arms the completion ticker only if none is armed.
StartHeadArmedOnce(s1, ut, ct, msgs, w) ==
  Activated(s1,
            IF IsSome(ct)
            THEN [ok |-> TRUE, v |-> ct]
            ELSE set_ticker(complete_interval(s1, Power, conf.speed,
                                              get_mock_now(w)), w),
            ut, ct, msgs, w)

\* not_working_check, the branch that starts the head: start_charging, then
\* set_ticker(complete_ticker, complete_interval()).
StartHead(s1, ut, ct, msgs, w) ==
  Activated(s1,
            set_ticker(complete_interval(s1, Power, conf.speed, get_mock_now(w)), w),
            ut, ct, msgs, w)

\* The tail shared by handle_new, handle_cancel and try_complete_charge,
\* after the handler sent `msgs`: not_working_check and what follows it.
not_working_check(st, ut, ct, msgs, w) ==
  IF ~is_working(st) /\ get_queue_size(st) > 0
  THEN StartHead(start_charging(st, get_mock_now(w)), ut, ct, msgs, w)
  ELSE Loop(st.queue, st.working, ut, ct, msgs, TRUE)

Station == [queue |-> queue, working |-> working]

\* An inbound message handled at w is no later than any armed deadline.
Timely(w) ==
  /\ w <= MaxWall
  /\ nmsg < MaxMsgs
  /\ IsSome(update_tiker) => w <= Unwrap(update_tiker).next
  /\ IsSome(complete_tiker) => w <= Unwrap(complete_tiker).next

\* A ticker fires at its deadline, which no other armed deadline precedes.
Due(t, other) ==
  /\ IsSome(t)
  /\ Unwrap(t).next <= MaxWall
  /\ IsSome(other) => Unwrap(t).next <= Unwrap(other).next

\* What a handler leaves behind, but for the messages.
View(q, w, ut, ct, ok) ==
  [queue |-> q, working |-> w, update_tiker |-> ut, complete_tiker |-> ct,
   ok |-> ok]

Delivery(failed, clean) == [failed |-> failed, clean |-> clean]

NoDelivery == Delivery({}, View(<<>>, FALSE, None, None, TRUE))

\* ws_sender.send(..) returns Ok or Err for each message of a handler: the
\* positions, in the messages sent, of those that return Err.
SendResults(msgs) == SUBSET (1..Len(msgs))

\* A handler that unwraps the result of its sends.
DeliveredOrPanic(r, failed) ==
  IF failed = {} THEN r ELSE [r EXCEPT !.ok = FALSE]

\* send_update, send_complete, send_fault: Err(e) is logged and the handler
\* goes on as after Ok.  The handler that leaves r when the sends at
\* `failed` return Err.
Delivered(r, failed) == r

\* The loop's variables after a handler left r.
Settle(r, closed, w) ==
  /\ wall' = w
  /\ queue' = r.queue
  /\ working' = r.working
  /\ update_tiker' = r.update_tiker
  /\ complete_tiker' = r.complete_tiker
  /\ sent' = r.sent
  /\ is_closed' = closed
  /\ pc' = IF r.ok THEN "running" ELSE "panicked"
  /\ UNCHANGED << conf, detail, prices, clock >>

\* The loop's variables after a handler that leaves r when its sends
\* return Ok; each send may return Err.
Leave(r, closed, w) ==
  \E failed \in SendResults(r.sent) :
    /\ Settle(Delivered(r, failed), closed, w)
    /\ delivery' = Delivery(failed, View(r.queue, r.working, r.update_tiker,
                                         r.complete_tiker, r.ok))

\* The event the loop took: a message by its type, "Closed" for the end of
\* the connection, a ticker or the breakdown signal.
Handled(event) == [op |-> event, arg |-> None, ret |-> None, ok |-> TRUE]

\* A handler that returns at once but drops both tickers on its way out.
IgnoreDisarmed(w) ==
  Leave(Loop(queue, working, None, None, <<>>, TRUE), is_closed, w)

\* A handler that returns at once: nothing changes but the time.
Ignore(w) ==
  Leave(Loop(queue, working, update_tiker, complete_tiker, <<>>, TRUE),
        is_closed, w)

\* What the peer may send as the data of a "new" message: a fresh session,
\* or one of another charge type, or one that is not ready.
NewPayloads ==
  { NewDetail(id, a, StationType) : id \in 1..MaxId, a \in Amounts }
  \cup { NewDetail(1, 200, ty) : ty \in ChargeTypes }
  \cup { [NewDetail(1, 200, StationType) EXCEPT !.already_charged = 30],
         [NewDetail(1, 200, StationType) EXCEPT !.status = "Charging"] }

\* handle without its IS_CLOSED check for a New message.
RecvNewWhileClosed(d, payload) ==
  /\ pc = "running"
  /\ Timely(wall + d)
  /\ nmsg' = nmsg + 1
  /\ call' = Handled("New")
  /\ IF ~is_ready(payload)
     THEN Ignore(wall + d)
     ELSE Leave(not_working_check(add_detail(Station, conf.size, payload),
                                  update_tiker, complete_tiker, <<>>, wall + d),
                is_closed, wall + d)

\* handle_new without its is_ready check.
RecvNewUnchecked(d, payload) ==
  /\ pc = "running"
  /\ Timely(wall + d)
  /\ nmsg' = nmsg + 1
  /\ call' = Handled("New")
  /\ IF is_closed
     THEN Ignore(wall + d)
     ELSE Leave(not_working_check(add_detail(Station, conf.size, payload),
                                  update_tiker, complete_tiker, <<>>, wall + d),
                is_closed, wall + d)

\* handle: MessageType::New, handle_new
RecvNew(d, payload) ==
  /\ pc = "running"
  /\ Timely(wall + d)
  /\ nmsg' = nmsg + 1
  /\ call' = Handled("New")
  /\ IF is_closed \/ ~is_ready(payload)
     THEN Ignore(wall + d)
     ELSE Leave(not_working_check(add_detail(Station, conf.size, payload),
                                  update_tiker, complete_tiker, <<>>, wall + d),
                is_closed, wall + d)

\* handle_cancel, once cancel_charging returned c.
Cancelled(c, w) ==
  IF ~c.ok
  THEN Leave(Loop(c.queue, c.working, update_tiker, complete_tiker, <<>>, FALSE),
             is_closed, w)
  ELSE IF c.ret[1] = "Err"
  THEN Ignore(w)
  ELSE Leave(not_working_check(c, update_tiker, complete_tiker,
                               << Msg("update", Some(c.ret[2])) >>, w),
             is_closed, w)

\* handle: MessageType::Cancel, handle_cancel
RecvCancel(d, detail_id) ==
  /\ pc = "running"
  /\ Timely(wall + d)
  /\ nmsg' = nmsg + 1
  /\ call' = Handled("Cancel")
  /\ IF is_closed
     THEN Ignore(wall + d)
     ELSE Cancelled(cancel_charging(Station, Power, detail_id,
                                    get_mock_now(wall + d)), wall + d)

\* handle_close without its two remove_ticker calls.
ClosedArmed(c, w) ==
  IF ~c.ok
  THEN Leave(Loop(c.queue, c.working, update_tiker, complete_tiker, <<>>, FALSE),
             is_closed, w)
  ELSE Leave(Loop(c.queue, c.working, update_tiker, complete_tiker,
                  IF IsSome(c.ret) THEN << Msg("update", c.ret) >> ELSE <<>>,
                  TRUE), TRUE, w)

\* handle_close, once Charge::close returned c; then IS_CLOSED.store(true).
Closed(c, w) ==
  IF ~c.ok
  THEN Leave(Loop(c.queue, c.working, update_tiker, complete_tiker, <<>>, FALSE),
             is_closed, w)
  ELSE Leave(Loop(c.queue, c.working, None, None,
                  IF IsSome(c.ret) THEN << Msg("update", c.ret) >> ELSE <<>>,
                  TRUE), TRUE, w)

\* handle: MessageType::Close, handle_close
RecvClose(d) ==
  /\ pc = "running"
  /\ Timely(wall + d)
  /\ nmsg' = nmsg + 1
  /\ call' = Handled("Close")
  /\ IF is_closed
     THEN Ignore(wall + d)
     ELSE Closed(close(Station, Power, get_mock_now(wall + d)), wall + d)

\* handle: MessageType::Open, handle_open; then IS_CLOSED.store(false).
RecvOpen(d) ==
  /\ pc = "running"
  /\ Timely(wall + d)
  /\ nmsg' = nmsg + 1
  /\ call' = Handled("Open")
  /\ IF ~is_closed
     THEN Ignore(wall + d)
     ELSE Leave(Loop(queue, working, None, None, <<>>, TRUE), FALSE, wall + d)

\* work: the receiver yields Close, an error or the end of the stream.
RecvClosed(d) ==
  /\ pc = "running"
  /\ Timely(wall + d)
  /\ nmsg' = nmsg + 1
  /\ wall' = wall + d
  /\ pc' = "stopped"
  /\ sent' = <<>>
  /\ call' = Handled("Closed")
  /\ delivery' = Delivery({}, View(queue, working, update_tiker,
                                   complete_tiker, TRUE))
  /\ UNCHANGED << conf, queue, working, update_tiker, complete_tiker,
                  is_closed, detail, prices, clock >>

\* try_update_charge sending the head as it was before update_charging.
UpdatedStale(u, w) ==
  IF ~u.ok
  THEN Leave(Loop(u.queue, u.working, Ticked(update_tiker), complete_tiker,
                  <<>>, FALSE), is_closed, w)
  ELSE Leave(Loop(u.queue, u.working, Ticked(update_tiker), complete_tiker,
                  << Msg("update", get_charging_detail_ref(Station)) >>, TRUE),
             is_closed, w)

\* try_update_charge, once update_charging returned u.
Updated(u, w) ==
  IF ~u.ok
  THEN Leave(Loop(u.queue, u.working, Ticked(update_tiker), complete_tiker,
                  <<>>, FALSE), is_closed, w)
  ELSE Leave(Loop(u.queue, u.working, Ticked(update_tiker), complete_tiker,
                  << Msg("update", get_charging_detail_ref(u)) >>, TRUE),
             is_closed, w)

\* work: the update ticker fires; try_update_charge
UpdateTick ==
  /\ pc = "running"
  /\ Due(update_tiker, complete_tiker)
  /\ UNCHANGED nmsg
  /\ call' = Handled("update_tick")
  /\ IF is_working(Station)
     THEN Updated(update_charging(Station, Power,
                                  get_mock_now(Unwrap(update_tiker).next)),
                  Unwrap(update_tiker).next)
     ELSE Leave(Loop(queue, working, None, complete_tiker, <<>>, TRUE),
                is_closed, Unwrap(update_tiker).next)

\* try_complete_charge, once complete_charging returned c.
Completed(c, w) ==
  IF ~c.ok
  THEN Leave(Loop(c.queue, c.working, update_tiker, Ticked(complete_tiker),
                  <<>>, FALSE), is_closed, w)
  ELSE Leave(not_working_check(c, None, None, << Msg("complete", c.ret) >>, w),
             is_closed, w)

\* work: the completion ticker fires; try_complete_charge
CompleteTick ==
  /\ pc = "running"
  /\ Due(complete_tiker, update_tiker)
  /\ UNCHANGED nmsg
  /\ call' = Handled("complete_tick")
  /\ IF is_working(Station)
     THEN Completed(complete_charging(Station, Power,
                                      get_mock_now(Unwrap(complete_tiker).next)),
                    Unwrap(complete_tiker).next)
     ELSE Leave(Loop(queue, working, None, None, <<>>, TRUE),
                is_closed, Unwrap(complete_tiker).next)

\* try_breakdown_charge without its two remove_ticker calls.
BrokenArmed(b) ==
  /\ queue' = b.queue
  /\ working' = b.working
  /\ sent' = IF b.ok THEN << Msg("fault", b.ret) >> ELSE <<>>
  /\ pc' = IF b.ok THEN "stopped" ELSE "panicked"
  /\ UNCHANGED << update_tiker, complete_tiker >>

\* try_breakdown_charge on a working station, once Charge::breakdown
\* returned b.
Broken(b) ==
  /\ queue' = b.queue
  /\ working' = b.working
  /\ sent' = IF b.ok THEN << Msg("fault", b.ret) >> ELSE <<>>
  /\ pc' = IF b.ok THEN "stopped" ELSE "panicked"
  /\ update_tiker' = IF b.ok THEN None ELSE update_tiker
  /\ complete_tiker' = IF b.ok THEN None ELSE complete_tiker

\* work: the breakdown signal; try_breakdown_charge, ws_sender.close(), break
Breakdown(d) ==
  /\ pc = "running"
  /\ Timely(wall + d)
  /\ nmsg' = nmsg + 1
  /\ wall' = wall + d
  /\ IF is_working(Station)
     THEN Broken(breakdown(Station, Power, get_mock_now(wall + d)))
     ELSE /\ sent' = << Msg("fault", None) >>
          /\ pc' = "stopped"
          /\ update_tiker' = None
          /\ complete_tiker' = None
          /\ UNCHANGED << queue, working >>
  /\ call' = Handled("breakdown")
  /\ \E failed \in SendResults(sent') :
       delivery' = Delivery(failed, View(queue', working', update_tiker',
                                         complete_tiker', pc' # "panicked"))
  /\ UNCHANGED << conf, is_closed, detail, prices, clock >>

NoCall == [op |-> "none", arg |-> None, ret |-> None, ok |-> TRUE]

Init ==
  /\ conf \in Confs
  /\ wall = 0
  /\ queue = <<>>
  /\ working = FALSE
  /\ update_tiker = None
  /\ complete_tiker = None
  /\ is_closed = FALSE
  /\ pc = "running"
  /\ sent = <<>>
  /\ nmsg = 0
  /\ call = NoCall
  /\ detail = NewDetail(1, 0, StationType)
  /\ prices = PRICESS
  /\ delivery = NoDelivery
  /\ clock = Unlatched

Next ==
  \/ \E d \in Delays, p \in NewPayloads : RecvNew(d, p)
  \/ \E d \in Delays, id \in 1..MaxId : RecvCancel(d, id)
  \/ \E d \in Delays : RecvClose(d)
  \/ \E d \in Delays : RecvOpen(d)
  \/ \E d \in Delays : RecvClosed(d)
  \/ UpdateTick
  \/ CompleteTick
  \/ \E d \in Delays : Breakdown(d)

Spec == Init /\ [][Next]_vars

-----------------------------------------------------------------------------
(* The station's operations called directly                                *)
(*                                                                         *)
(* A caller holding the Charge calls its public operations in any order,   *)
(* each a while after the one before; `call` records the operation, its    *)
(* argument, what it returned and whether it panicked.  After a panic no   *)
(* further call is made.                                                   *)

\* Real milliseconds from one direct call to the next.
CallDelay == 100

\* The sessions a caller enqueues: the ready ones.
ReadyPayloads == { p \in NewPayloads : is_ready(p) }

Call(op, arg, ret, ok) == [op |-> op, arg |-> arg, ret |-> ret, ok |-> ok]

CanCall ==
  /\ pc = "running"
  /\ nmsg < MaxCalls
  /\ wall + CallDelay <= MaxWall

\* The variables after the operation `op` called with `arg` returned r.
Called(op, arg, r) ==
  /\ wall' = wall + CallDelay
  /\ nmsg' = nmsg + 1
  /\ queue' = r.queue
  /\ working' = r.working
  /\ call' = Call(op, arg, r.ret, r.ok)
  /\ pc' = IF r.ok THEN "running" ELSE "panicked"
  /\ UNCHANGED << conf, update_tiker, complete_tiker, is_closed, sent, detail,
                  prices, delivery, clock >>

CallNow == get_mock_now(wall + CallDelay)

CallAddDetail(p) ==
  /\ CanCall
  /\ Called("add_detail", Some(p), add_detail(Station, conf.size, p))

CallStartCharging ==
  /\ CanCall
  /\ Called("start_charging", None, start_charging(Station, CallNow))

CallUpdateCharging ==
  /\ CanCall
  /\ Called("update_charging", None, update_charging(Station, Power, CallNow))

CallCompleteCharging ==
  /\ CanCall
  /\ Called("complete_charging", None, complete_charging(Station, Power, CallNow))

CallCancelCharging(detail_id) ==
  /\ CanCall
  /\ Called("cancel_charging", Some(detail_id),
            cancel_charging(Station, Power, detail_id, CallNow))

CallClose ==
  /\ CanCall
  /\ Called("close", None, close(Station, Power, CallNow))

CallBreakdown ==
  /\ CanCall
  /\ Called("breakdown", None, breakdown(Station, Power, CallNow))

CallCompleteInterval ==
  /\ CanCall
  /\ Called("complete_interval", None,
            Result(queue, working,
                   Some(complete_interval(Station, Power, conf.speed, CallNow)),
                   TRUE))

NextStation ==
  \/ \E p \in ReadyPayloads : CallAddDetail(p)
  \/ CallStartCharging
  \/ CallUpdateCharging
  \/ CallCompleteCharging
  \/ \E id \in 1..MaxId : CallCancelCharging(id)
  \/ CallClose
  \/ CallBreakdown
  \/ CallCompleteInterval

SpecStation == Init /\ [][NextStation]_vars

-----------------------------------------------------------------------------
(* The session's operations called directly                                *)
(*                                                                         *)
(* A caller holding one ChargingDetail calls start, update_state, complete *)
(* and interrupt on it in any order and with any arguments; a call that    *)
(* panics is caught and the caller goes on with the session as it is.      *)

\* Energies and costs a caller passes.
ArgCharged == {0, 30}
ArgCost == {0, 7}
ArgFee == {0, 13}

InitDetail ==
  /\ conf \in Confs
  /\ wall = 0
  /\ queue = <<>>
  /\ working = FALSE
  /\ update_tiker = None
  /\ complete_tiker = None
  /\ is_closed = FALSE
  /\ pc = "running"
  /\ sent = <<>>
  /\ nmsg = 0
  /\ call = NoCall
  /\ detail \in { NewDetail(1, a, StationType) : a \in Amounts }
  /\ prices = PRICESS
  /\ delivery = NoDelivery
  /\ clock = Unlatched

\* The variables after the session operation `op` returned r.
CalledDetail(op, r) ==
  /\ wall' = wall + CallDelay
  /\ nmsg' = nmsg + 1
  /\ detail' = r.d
  /\ call' = Call(op, None, None, r.ok)
  /\ UNCHANGED << conf, queue, working, update_tiker, complete_tiker,
                  is_closed, pc, sent, prices, delivery, clock >>

DetailStart ==
  /\ CanCall
  /\ CalledDetail("start", start(detail, CallNow))

DetailUpdateState(charged, cost, fee) ==
  /\ CanCall
  /\ CalledDetail("update_state", update_state(detail, charged, cost, fee, CallNow))

DetailComplete(charged, cost, fee) ==
  /\ CanCall
  /\ CalledDetail("complete", complete(detail, charged, cost, fee, CallNow))

DetailInterrupt(charged, cost, fee) ==
  /\ CanCall
  /\ CalledDetail("interrupt", interrupt(detail, charged, cost, fee, CallNow))

NextDetail ==
  \/ DetailStart
  \/ \E c \in ArgCharged, e \in ArgCost, f \in ArgFee : DetailUpdateState(c, e, f)
  \/ \E c \in ArgCharged, e \in ArgCost, f \in ArgFee : DetailComplete(c, e, f)
  \/ \E c \in ArgCharged, e \in ArgCost, f \in ArgFee : DetailInterrupt(c, e, f)

SpecDetail == InitDetail /\ [][NextDetail]_vars

-----------------------------------------------------------------------------
(* The price table's normalisation called directly                         *)
(*                                                                         *)
(* A table is read from the price file as PRICESS reads it (is_optimized   *)
(* is skipped by serde, so it is false) and optimize is called on it, any  *)
(* number of times.  `call` records the table optimize was called on and   *)
(* the error it returned.                                                  *)

\* Times of day and prices (hundredths per kWh) of the periods in the file.
PriceTimes == {MIDNIGHT, Hms(7, 0, 0), Hms(23, 0, 0)}
PriceValues == {40, 70}
FileFee == 80

InputPeriods == { Period(s, e, p) : s \in PriceTimes, e \in PriceTimes, p \in PriceValues }

InputTables(n) == UNION { [1..k -> InputPeriods] : k \in 0..n }

FilePrices(n) ==
  { [periods |-> t, service_fee |-> FileFee, is_optimized |-> FALSE] :
      t \in InputTables(n) }

\* The configuration plays no part in the pricing operations.
NoConf == [speed |-> 1, size |-> 0, start_time |-> None]

InitTable ==
  /\ conf = NoConf
  /\ wall = 0
  /\ queue = <<>>
  /\ working = FALSE
  /\ update_tiker = None
  /\ complete_tiker = None
  /\ is_closed = FALSE
  /\ pc = "running"
  /\ sent = <<>>
  /\ nmsg = 0
  /\ call = NoCall
  /\ detail = NewDetail(1, 0, StationType)
  /\ prices \in FilePrices(MaxPeriods)
  /\ delivery = NoDelivery
  /\ clock = Unlatched

\* The variables after a pricing operation `op` called with `arg` returned
\* `ret` and left the table p.
CalledPrices(op, arg, ret, ok, p, next) ==
  /\ prices' = p
  /\ call' = Call(op, arg, ret, ok)
  /\ pc' = next
  /\ UNCHANGED << conf, wall, queue, working, update_tiker, complete_tiker,
                  is_closed, sent, nmsg, detail, delivery, clock >>

Optimizing(r) == CalledPrices("optimize", Some(prices), r.err, r.ok, r.p, pc)

PricesOptimize ==
  /\ pc = "running"
  /\ Optimizing(optimize(prices))

NextTable == PricesOptimize

SpecTable == InitTable /\ [][NextTable]_vars

-----------------------------------------------------------------------------
(* The pricing queries called directly                                     *)
(*                                                                         *)
(* The table is the built-in default or a table read from the price file;  *)
(* optimize is called on it any number of times, and then calc_price or    *)
(* calc_day_price is called once, with any arguments, which ends the run:  *)
(* a query leaves the table as it is, so a second one would see what the   *)
(* first one saw.                                                          *)

\* Times of day, instants (milliseconds since 00:00 of day 0) and powers
\* (kW) the queries are called with.
ClockTimes == {MIDNIGHT, Hms(8, 0, 0), Hms(20, 0, 0), Hms(23, 0, 20)}
Instants == { d * DayMs + t : d \in 0..MaxDay, t \in ClockTimes }
PricePowers == {1, Power}

InitPrice ==
  /\ conf = NoConf
  /\ wall = 0
  /\ queue = <<>>
  /\ working = FALSE
  /\ update_tiker = None
  /\ complete_tiker = None
  /\ is_closed = FALSE
  /\ pc = "running"
  /\ sent = <<>>
  /\ nmsg = 0
  /\ call = NoCall
  /\ detail = NewDetail(1, 0, StationType)
  /\ prices \in FilePrices(MaxPeriods - 1) \cup {DEFAULT_PRICES}
  /\ delivery = NoDelivery
  /\ clock = Unlatched

\* A query that returned r: the value, or the kind of the error.
Queried(op, arg, r) ==
  CalledPrices(op, arg, IF r.ok THEN Some(r.v) ELSE r.err, r.ok, prices, "stopped")

PricesCalcPrice(start_dt, end_dt, power) ==
  /\ pc = "running"
  /\ Queried("calc_price", << start_dt, end_dt, power >>,
             calc_price(prices, start_dt, end_dt, power))

PricesCalcDayPrice(start_t, end_t, power) ==
  /\ pc = "running"
  /\ Queried("calc_day_price", << start_t, end_t, power >>,
             calc_day_price(prices, start_t, end_t, power))

NextPrice ==
  \/ PricesOptimize
  \/ \E s \in Instants, e \in Instants, pw \in PricePowers : PricesCalcPrice(s, e, pw)
  \/ \E s \in ClockTimes, e \in ClockTimes, pw \in PricePowers :
       PricesCalcDayPrice(s, e, pw)

SpecPrice == InitPrice /\ [][NextPrice]_vars

-----------------------------------------------------------------------------
(* time.rs at the width of its arithmetic                                  *)
(*                                                                         *)
(* get_mock_now multiplies two i64.  Here times are counted in units of    *)
(* 2^33 ns (about 8.6 s), so that the i64 nanoseconds that are multiples   *)
(* of the unit are exactly the integers of [-2^30, 2^30) and the product   *)
(* wraps at 2^30 units as the i64 wraps at 2^63 ns.  The controller above  *)
(* stays far below that width.                                             *)

\* i64::MAX + 1 nanoseconds, in units.
I64Half == 1073741824

\* The i64 that holds x, for x within twice the width.
WrapI64(x) ==
  IF x >= I64Half THEN (x - I64Half) - I64Half
  ELSE IF x < -I64Half THEN (x + I64Half) + I64Half
  ELSE x

\* i64::wrapping_add
AddI64(a, b) == WrapI64(a + b)

\* i64::wrapping_mul for b >= 0, by doubling.
RECURSIVE MulI64(_, _)
MulI64(a, b) ==
  IF b = 0 THEN 0
  ELSE IF b % 2 = 1 THEN AddI64(a, MulI64(AddI64(a, a), b \div 2))
  ELSE MulI64(AddI64(a, a), b \div 2)

\* The product of a >= 0 and b >= 0 does not fit an i64.
Overflows(a, b) == a > 0 /\ b > 0 /\ a > (I64Half - 1) \div b

\* nanos * CONF.time.speed as i64: with overflow checks (a debug build) an
\* overflow panics, without them (a release build) the product wraps.
accelerated_duration(nanos, speed, checks) ==
  IF checks /\ Overflows(nanos, speed)
  THEN [ok |-> FALSE, v |-> 0]
  ELSE [ok |-> TRUE, v |-> MulI64(nanos, speed)]

\* LazyLock::force: the value of the cell, computed at its first use.
Force(cell, first) == IF IsSome(cell) THEN cell ELSE Some(first)

ClockResult(ok, v, cells) == [ok |-> ok, v |-> v, cells |-> cells]

\* get_mock_now, speed # 1, once REAL_START_TIME is forced and the product
\* is acc; MOCK_TIME is forced after the multiplication.
MockNowFrom(start_time, cells, epoch, utc_now, acc) ==
  IF ~acc.ok
  THEN ClockResult(FALSE, 0, [cells EXCEPT !.real_start_time = epoch])
  ELSE ClockResult(TRUE,
         Unwrap(Force(cells.mock_time,
                      IF IsSome(start_time) THEN Unwrap(start_time) ELSE utc_now))
           + acc.v,
         [real_start_time |-> epoch,
          mock_time |-> Force(cells.mock_time,
                              IF IsSome(start_time) THEN Unwrap(start_time)
                              ELSE utc_now)])

MockNowSince(speed, start_time, cells, epoch, utc_now, checks) ==
  MockNowFrom(start_time, cells, epoch, utc_now,
              accelerated_duration(utc_now - Unwrap(epoch), speed, checks))

\* get_mock_now() called when Utc::now() reads utc_now.
GetMockNow(speed, start_time, cells, utc_now, checks) ==
  IF speed = 1
  THEN ClockResult(TRUE, utc_now, cells)
  ELSE MockNowSince(speed, start_time, cells,
                    Force(cells.real_start_time, utc_now), utc_now, checks)

-----------------------------------------------------------------------------
(* SpecClock: get_mock_now called as the wall clock advances               *)

\* The largest reading of the wall clock, in units since the process began.
MaxElapsed == 298264

\* CONF.time.speed: real time, double, and one virtual hour per second.
ClockSpeeds == {1, 2, 3600}
\* CONF.time.start_time, in units before the process began.
ClockStarts == {None, Some(-1000)}
\* What the wall clock advances by between two calls: one unit, and half of
\* 29 days 15 hours.
Advances == {1, 149131}

InitClock ==
  /\ conf \in [speed : ClockSpeeds, size : {0}, start_time : ClockStarts]
  /\ wall = 0
  /\ queue = <<>>
  /\ working = FALSE
  /\ update_tiker = None
  /\ complete_tiker = None
  /\ is_closed = FALSE
  /\ pc = "running"
  /\ sent = <<>>
  /\ nmsg = 0
  /\ call = NoCall
  /\ detail = NewDetail(1, 0, StationType)
  /\ prices = PRICESS
  /\ delivery = NoDelivery
  /\ clock = Unlatched

\* Utc::now() reads d units later.
ClockAdvance(d) ==
  /\ pc = "running"
  /\ nmsg < MaxCalls
  /\ wall + d <= MaxElapsed
  /\ wall' = wall + d
  /\ nmsg' = nmsg + 1
  /\ UNCHANGED << conf, queue, working, update_tiker, complete_tiker,
                  is_closed, pc, sent, call, detail, prices, delivery,
                  clock >>

\* The variables after get_mock_now returned r.
ClockRead(r) ==
  /\ call' = [op |-> "get_mock_now", arg |-> Some(wall),
              ret |-> IF r.ok THEN Some(r.v) ELSE None, ok |-> r.ok]
  /\ clock' = r.cells
  /\ pc' = IF r.ok THEN "running" ELSE "panicked"
  /\ nmsg' = nmsg + 1
  /\ UNCHANGED << conf, wall, queue, working, update_tiker, complete_tiker,
                  is_closed, sent, detail, prices, delivery >>

CallGetMockNow(checks) ==
  /\ pc = "running"
  /\ nmsg < MaxCalls
  /\ ClockRead(GetMockNow(conf.speed, conf.start_time, clock, wall, checks))

NextClock ==
  \/ \E d \in Advances : ClockAdvance(d)
  \/ \E checks \in BOOLEAN : CallGetMockNow(checks)

SpecClock == InitClock /\ [][NextClock]_vars

-----------------------------------------------------------------------------
(* Properties                                                              *)

\* C1: under every sequence of controller events at most one session of the
\* queue is Charging, and a Charging session is the head of the queue.
OnlyHeadCharging ==
  \A i \in 1..Len(queue) : queue[i].status = "Charging" => i = 1

\* C1: a session is Charging at the head while another one waits behind it.
HeadChargingOtherWaiting ==
  /\ Len(queue) >= 2
  /\ queue[1].status = "Charging"
  /\ queue[2].status = "Waiting"

\* C2: between two handled events the working flag is set exactly when the
\* queue is non-empty and its head is Charging.
WorkingIffHeadCharging ==
  pc = "running" =>
    (working <=> (queue # <<>> /\ Head(queue).status = "Charging"))

\* C2: the head was cancelled while charging and the session behind it was
\* activated by the same handler.
NextHeadActivated ==
  /\ pc = "running"
  /\ Len(sent) = 2
  /\ sent[1].type_ = "update"
  /\ Unwrap(sent[1].data).status = "Interrupted"
  /\ Unwrap(sent[1].data).start_time # None
  /\ working
  /\ queue # <<>>
  /\ Head(queue).status = "Charging"

\* C3: after any sequence of station operations the queue is no longer than
\* the configured capacity, capacity 0 included.
QueueWithinCapacity == Len(queue) <= conf.size

\* C3: an enqueue of a session of the station's type was tried at capacity 0,
\* and one was tried on a queue that is full.
EnqueueAtCapacity ==
  /\ call.op = "add_detail"
  /\ Unwrap(call.arg).type_ = StationType
  /\ Len(queue) = conf.size
  /\ conf.size \in {0, MaxSize}

\* C4: cancelling a session that is in the queue but not its head returns
\* that session Interrupted with zero costs, removes it from the queue and
\* leaves the head, the order of the others and the working flag unchanged.
CancelPos == Position(queue, Unwrap(call'.arg))

CancelQueuedLeavesHead ==
  [][ (call'.op = "cancel_charging" /\ CancelPos > 1) =>
        /\ call'.ok
        /\ call'.ret[1] = "Ok"
        /\ call'.ret[2].id = queue[CancelPos].id
        /\ call'.ret[2].status = "Interrupted"
        /\ call'.ret[2].charge_cost = 0
        /\ call'.ret[2].service_fee = 0
        /\ call'.ret[2].total_cost = 0
        /\ queue' = RemoveAt(queue, CancelPos)
        /\ working' = working ]_vars

\* C5: cancelling the head while it is Charging interrupts it with the cost
\* of [start_time, now), clears the working flag, removes it from the queue
\* and returns it Interrupted; the others keep their order and stay Waiting.
HeadCost == CostOf(Power, Head(queue), get_mock_now(wall'))

CancelsChargingHead ==
  /\ call'.op = "cancel_charging"
  /\ queue # <<>>
  /\ Head(queue).id = Unwrap(call'.arg)
  /\ Head(queue).status = "Charging"

CancelHeadInterrupts ==
  [][ CancelsChargingHead =>
        /\ call'.ok
        /\ call'.ret[1] = "Ok"
        /\ call'.ret[2].id = Head(queue).id
        /\ call'.ret[2].status = "Interrupted"
        /\ call'.ret[2].start_time = Head(queue).start_time
        /\ call'.ret[2].charge_cost = HeadCost.v[1]
        /\ call'.ret[2].service_fee = HeadCost.v[2]
        /\ call'.ret[2].total_cost = HeadCost.v[1] + HeadCost.v[2]
        /\ ~working'
        /\ queue' = Tail(queue)
        /\ \A i \in 1..Len(queue') : queue'[i].status = "Waiting" ]_vars

\* C5: a Charging head was cancelled at a cost, and a session waits behind.
HeadCancelledAtCost ==
  /\ call.op = "cancel_charging"
  /\ call.ok
  /\ call.ret[1] = "Ok"
  /\ call.ret[2].start_time # None
  /\ call.ret[2].total_cost > 0
  /\ ~working
  /\ Len(queue) = 1
  /\ Head(queue).status = "Waiting"

\* C6: close() on any state the station operations reach leaves the queue
\* empty and the working flag clear, and returns the former head Interrupted
\* exactly when the queue was non-empty; the other sessions are dropped.
CloseReturnsHead ==
  [][ call'.op = "close" =>
        /\ call'.ok
        /\ queue' = <<>>
        /\ ~working'
        /\ queue = <<>> => call'.ret = None
        /\ queue # <<>> =>
             /\ call'.ret # None
             /\ Unwrap(call'.ret).id = Head(queue).id
             /\ Unwrap(call'.ret).status = "Interrupted" ]_vars

\* C7: a station operation whose precondition fails leaves the queue, every
\* session and the working flag unchanged: tick_complete() then returns
\* None, cancel() reports NotFound and remaining_millis() returns 0.
PreconditionFails ==
  \/ /\ call'.op = "add_detail"
     /\ \/ Unwrap(call'.arg).type_ # StationType
        \/ Len(queue) >= conf.size
  \/ /\ call'.op = "start_charging"
     /\ working \/ queue = <<>>
  \/ /\ call'.op \in {"update_charging", "complete_charging", "complete_interval"}
     /\ ~working
  \/ /\ call'.op = "cancel_charging"
     /\ \A i \in 1..Len(queue) : queue[i].id # Unwrap(call'.arg)

FailedOperationChangesNothing ==
  [][ PreconditionFails =>
        /\ call'.ok
        /\ queue' = queue
        /\ working' = working
        /\ call'.op = "complete_charging" => call'.ret = None
        /\ call'.op = "cancel_charging" => call'.ret = <<"Err">>
        /\ call'.op = "complete_interval" => call'.ret = Some(0) ]_vars

\* C7: a completion tick was tried on an idle station that holds a session.
IdleCompletionTried ==
  /\ call.op = "complete_charging"
  /\ call.ok
  /\ call.ret = None
  /\ ~working
  /\ queue # <<>>

\* C8: a session operation called out of order (start on a session that is
\* not Waiting, update_state or complete on one that is not Charging,
\* interrupt on one that is Completed or Interrupted) fails and leaves every
\* field of the session unchanged.
OutOfOrder ==
  \/ call'.op = "start" /\ detail.status # "Waiting"
  \/ call'.op \in {"update_state", "complete"} /\ detail.status # "Charging"
  \/ call'.op = "interrupt" /\ detail.status \in {"Completed", "Interrupted"}

OutOfOrderFailsUnchanged ==
  [][ OutOfOrder => (~call'.ok /\ detail' = detail) ]_vars

\* C8: a Completed session, with its costs, on which a start just failed.
StartFailedOnCompleted ==
  /\ call.op = "start"
  /\ ~call.ok
  /\ detail.status = "Completed"
  /\ detail.total_cost > 0

\* C9: the status of a session only moves Waiting -> Charging, Charging ->
\* Completed, Charging -> Interrupted and Waiting -> Interrupted; Completed
\* and Interrupted are final.
Transitions ==
  { <<"Waiting", "Charging">>, <<"Charging", "Completed">>,
    <<"Charging", "Interrupted">>, <<"Waiting", "Interrupted">> }

StatusMovesForward ==
  [][ \/ detail'.status = detail.status
      \/ << detail.status, detail'.status >> \in Transitions ]_vars

\* C9: an interrupt was tried on a session that had completed.
InterruptTriedAfterCompleted ==
  /\ call.op = "interrupt"
  /\ ~call.ok
  /\ detail.status = "Completed"
  /\ detail.end_time # None

\* C10: while the station is working remaining_millis() is strictly
\* positive, whatever the request, the elapsed time and the acceleration;
\* it is 0 when the station is idle.
RemainingPositiveWhileWorking ==
  call.op = "complete_interval" =>
    /\ working => Unwrap(call.ret) > 0
    /\ ~working => Unwrap(call.ret) = 0

\* The end of a period as an offset into the day: a period that ends at
\* 00:00 ends with the day.
DayEnd(period) == IF period.end = MIDNIGHT THEN DayMs ELSE period.end

\* The periods are sorted by start, the first starts at 00:00, each ends
\* where the next starts and the last ends at midnight.
Tiles(ps) ==
  /\ ps # <<>>
  /\ ps[1].start = MIDNIGHT
  /\ DayEnd(ps[Len(ps)]) = DayMs
  /\ \A i \in 1..Len(ps) : ps[i].start <= DayEnd(ps[i])
  /\ \A i \in 1..(Len(ps) - 1) :
       /\ ps[i].start <= ps[i + 1].start
       /\ DayEnd(ps[i]) = ps[i + 1].start

\* C11: after optimize succeeds on any input table the table is marked
\* optimized and its periods, sorted by start, tile [00:00, 24:00) with no
\* gaps and no overlaps.
OptimizedTiles ==
  (call.op = "optimize" /\ call.ok) =>
    (prices.is_optimized /\ Tiles(prices.periods))

\* C12: on a table on which optimize has just succeeded, optimize succeeds
\* again and leaves the period sequence unchanged.
OptimizeIdempotent ==
  [][ (call.op = "optimize" /\ call.ok /\ call'.op = "optimize") =>
        (call'.ok /\ prices'.periods = prices.periods) ]_vars

\* Two periods cover a common stretch of the day of positive length.
Overlapping(a, b) ==
  Max(a.start, b.start) < Min(DayEnd(a), DayEnd(b))

PricedOverlap(ps) ==
  \E i, j \in 1..Len(ps) :
    /\ i # j
    /\ Overlapping(ps[i], ps[j])
    /\ ps[i].price # ps[j].price

\* The input periods with each midnight-crossing one replaced by its two
\* halves of the same price.
RECURSIVE Halved(_)
Halved(ps) ==
  IF ps = <<>> THEN <<>>
  ELSE IF Head(ps).start > Head(ps).end /\ Head(ps).end # MIDNIGHT
  THEN << [start |-> Head(ps).start, end |-> MIDNIGHT, price |-> Head(ps).price],
          [start |-> MIDNIGHT, end |-> Head(ps).end, price |-> Head(ps).price] >>
       \o Halved(Tail(ps))
  ELSE << Head(ps) >> \o Halved(Tail(ps))

Crossings(ps) ==
  Cardinality({ i \in 1..Len(ps) : ps[i].start > ps[i].end /\ ps[i].end # MIDNIGHT })

\* C13: optimize returns the Overlap error whenever two input periods, after
\* the midnight split, overlap for a positive duration at different prices,
\* and then leaves the periods and the optimized flag unchanged.
OverlapRejected ==
  [][ ( /\ call'.op = "optimize"
        /\ Crossings(prices.periods) <= 1
        /\ PricedOverlap(Halved(prices.periods)) ) =>
        (~call'.ok /\ call'.ret = "Overlap" /\ prices' = prices) ]_vars

\* C14: optimize fails with MultipleMidnightCrossings exactly when more than
\* one input period crosses midnight, and then leaves the table unchanged;
\* exactly one crossing period is split into [start, midnight) and
\* [00:00, end) of the same price: the table is normalised as the table with
\* the two halves in its place is, and a table of that one period becomes
\* [00:00, end) at the price, the gap at price 0, [start, midnight) at the
\* price.
HalvedTable == [prices EXCEPT !.periods = Halved(prices.periods)]

OneCrossingAlone ==
  << Period(MIDNIGHT, prices.periods[1].end, prices.periods[1].price),
     Period(prices.periods[1].end, prices.periods[1].start, 0),
     Period(prices.periods[1].start, MIDNIGHT, prices.periods[1].price) >>

MidnightCrossings ==
  [][ call'.op = "optimize" =>
        /\ (call'.ret = "MultipleMidnightCrossings") <=> (Crossings(prices.periods) > 1)
        /\ Crossings(prices.periods) > 1 => (~call'.ok /\ prices' = prices)
        /\ Crossings(prices.periods) = 1 =>
             /\ call'.ok = optimize(HalvedTable).ok
             /\ call'.ok => prices'.periods = optimize(HalvedTable).p.periods
             /\ Len(prices.periods) = 1 =>
                  (call'.ok /\ prices'.periods = OneCrossingAlone) ]_vars

\* C14: optimize succeeded on a table of two periods of which one crosses
\* midnight.
OneCrossingSplit ==
  /\ call.op = "optimize"
  /\ call.ok
  /\ Len(Unwrap(call.arg).periods) = 2
  /\ Crossings(Unwrap(call.arg).periods) = 1
  /\ prices.is_optimized

\* C15: calc_price returns NotOptimized when the table is not optimized and
\* InvalidRange when start >= end, start = end included; calc_day_price
\* rejects the same two cases; no error case modifies the table.
IsQuery == call'.op \in {"calc_price", "calc_day_price"}

QueryErrors ==
  [][ IsQuery =>
        /\ prices' = prices
        /\ ~prices.is_optimized => (~call'.ok /\ call'.ret = "NotOptimized")
        /\ call'.arg[1] >= call'.arg[2] =>
             (~call'.ok /\ call'.ret \in {"InvalidRange", "NotOptimized"})
        /\ (prices.is_optimized /\ call'.arg[1] >= call'.arg[2]) =>
             (~call'.ok /\ call'.ret = "InvalidRange") ]_vars

\* C15: calc_price was called on an optimized table with start = end.
EmptyRangeRejected ==
  /\ call.op = "calc_price"
  /\ prices.is_optimized
  /\ call.arg[1] = call.arg[2]
  /\ ~call.ok

\* The midnights strictly inside the range the last query was called with.
InnerMidnights ==
  { d * DayMs : d \in 0..MaxDay } \cap ((call.arg[1] + 1)..(call.arg[2] - 1))

Distance(a, b) == IF a >= b THEN a - b ELSE b - a

\* C16: on an optimized table, for start < m < end with m a midnight,
\* calc_price(start, end) is calc_price(start, m) + calc_price(m, end) within
\* 0.01.
DaySplitAdditive ==
  (call.op = "calc_price" /\ call.ok) =>
    \A m \in InnerMidnights :
      /\ calc_price(prices, call.arg[1], m, call.arg[3]).ok
      /\ calc_price(prices, m, call.arg[2], call.arg[3]).ok
      /\ Distance(Unwrap(call.ret),
                  calc_price(prices, call.arg[1], m, call.arg[3]).v
                  + calc_price(prices, m, call.arg[2], call.arg[3]).v) <= 1

\* C16: a range of two days and more, priced at a cost the rounding changes.
TwoMidnightsInside ==
  /\ call.op = "calc_price"
  /\ call.ok
  /\ Cardinality(InnerMidnights) = 2
  /\ call.arg[1] % DayMs = Hms(23, 0, 20)
  /\ Unwrap(call.ret) > 0

\* The seconds [start, end) shares with the period on the calendar day d.
OverlapSecs(period, d, start_dt, end_dt) ==
  Max(0, Min(end_dt, d * DayMs + DayEnd(period))
         - Max(start_dt, d * DayMs + period.start)) \div SecMs

\* The sum over every calendar day and every period of overlap * power *
\* (price + service_fee), in hundredths times HourSecs.
Integral(p, start_dt, end_dt, power) ==
  SeqSum([ d \in 1..(MaxDay + 1) |->
           SeqSum([ i \in 1..Len(p.periods) |->
                    OverlapSecs(p.periods[i], d - 1, start_dt, end_dt) * power
                    * (p.periods[i].price + p.service_fee) ]) ])

\* C17: on an optimized table that tiles the day, calc_price(start, end) is
\* the sum over every period and every calendar day the range touches of
\* overlap_hours * power * (price + service_fee) rounded to 2 decimals,
\* ranges that start or end at midnight or span several days included; with
\* the default table, power 1 and 08:00 to 20:00 of one day it is 20.1.
PriceIsIntegral ==
  (call.op = "calc_price" /\ call.ok /\ Tiles(prices.periods)) =>
    /\ Unwrap(call.ret)
         = RoundDiv(Integral(prices, call.arg[1], call.arg[2], call.arg[3]), HourSecs)
    /\ ( /\ prices = DEFAULT_PRICES
         /\ call.arg = << Hms(8, 0, 0), Hms(20, 0, 0), 1 >> ) =>
         Unwrap(call.ret) = 2010

\* C17: the default table priced from 08:00 to 20:00 of one day at power 1.
DefaultTableExample ==
  /\ call.op = "calc_price"
  /\ call.ok
  /\ prices = DEFAULT_PRICES
  /\ call.arg = << Hms(8, 0, 0), Hms(20, 0, 0), 1 >>
  /\ call.ret = Some(2010)

-----------------------------------------------------------------------------
(* The completion ticker, the breakdown signal and the ignored messages   *)

\* The step in which the loop took `event`.
Took(event) == call'.op = event

\* The station after the step.
StationNext == [queue |-> queue', working |-> working']

\* The message sent first in the step is the Complete of the head that was
\* charging, with status Completed.
CompleteSentFirst ==
  /\ sent' # <<>>
  /\ sent'[1].type_ = "complete"
  /\ IsSome(sent'[1].data)
  /\ Unwrap(sent'[1].data).id = Head(queue).id
  /\ Unwrap(sent'[1].data).status = "Completed"

\* The step left the station idle and empty with both tickers disarmed.
LeftIdle ==
  /\ Len(sent') = 1
  /\ queue' = <<>>
  /\ ~working'
  /\ update_tiker' = None
  /\ complete_tiker' = None

\* The step activated the detail that was second in the queue, sent one
\* Update for it after the Complete, and armed the update ticker at the
\* configured interval and the completion ticker at `remaining`.
NextActivated(remaining) ==
  /\ pc' = "running"
  /\ Len(sent') = 2
  /\ queue' # <<>>
  /\ Head(queue').id = queue[2].id
  /\ Head(queue').status = "Charging"
  /\ working'
  /\ sent'[2] = Msg("update", Some(Head(queue')))
  /\ update_tiker' = Some(Ticker(wall' + UpdateInterval, UpdateInterval))
  /\ complete_tiker' = Some(Ticker(wall' + remaining, remaining))

\* C18: when the completion ticker fires on a working station, the Complete
\* of the finished head (status Completed) is sent first and both tickers
\* are disarmed; then, if a detail is waiting, it is activated, one Update is
\* sent for it, the update ticker is armed at the configured interval and
\* the completion ticker at the new head's remaining time; if none is
\* waiting both tickers stay disarmed.
CompletionActivatesNext ==
  [][(pc = "running" /\ working /\ Took("complete_tick"))
     => /\ CompleteSentFirst
        /\ IF Len(queue) = 1
           THEN LeftIdle
           ELSE NextActivated(complete_interval(StationNext, Power, conf.speed,
                                                get_mock_now(wall')))]_vars

\* C19: a breakdown signal handled in any state sends exactly one Fault,
\* carrying the interrupted head when the station was working and nothing
\* otherwise, disarms both tickers and ends the loop; no step follows it.
BreakdownEndsLoop ==
  [][/\ pc # "stopped"
     /\ (pc = "running" /\ Took("breakdown"))
        => /\ Len(sent') = 1
           /\ sent'[1].type_ = "fault"
           /\ IF working
              THEN /\ IsSome(sent'[1].data)
                   /\ Unwrap(sent'[1].data).id = Head(queue).id
                   /\ Unwrap(sent'[1].data).status = "Interrupted"
              ELSE sent'[1].data = None
           /\ update_tiker' = None
           /\ complete_tiker' = None
           /\ ~working'
           /\ pc' = "stopped"]_vars

\* C19 witness: the loop stopped on a breakdown that interrupted a head
\* which had taken some energy.
BreakdownInterruptedHead ==
  /\ pc = "stopped"
  /\ call.op = "breakdown"
  /\ sent # <<>>
  /\ IsSome(sent[1].data)
  /\ Unwrap(sent[1].data).status = "Interrupted"
  /\ Unwrap(sent[1].data).already_charged > 0

\* C20: a Close received while the station is closed and an Open received
\* while it is open change neither the station, nor the tickers, nor the
\* flag, and send nothing.
RepeatedCloseOpenIgnored ==
  [][(/\ pc = "running"
      /\ \/ is_closed /\ Took("Close")
         \/ ~is_closed /\ Took("Open"))
     => /\ UNCHANGED << queue, working, update_tiker, complete_tiker, is_closed >>
        /\ sent' = <<>>
        /\ pc' = "running"]_vars

\* C20 witness: an Open was ignored by an open station that is charging
\* with both tickers armed.
OpenIgnoredWhileCharging ==
  /\ call.op = "Open"
  /\ ~is_closed
  /\ working
  /\ IsSome(update_tiker)
  /\ IsSome(complete_tiker)
  /\ sent = <<>>

-----------------------------------------------------------------------------
(* The tickers between two fires                                           *)

\* The ticker was created by set_ticker in the step, `duration` from now.
ArmedNow(t, duration) == t = Some(Ticker(wall' + duration, duration))

-----------------------------------------------------------------------------
(* Sends that fail                                                         *)

\* What the step left behind, but for the messages.
ViewNext ==
  View(queue', working', update_tiker', complete_tiker', pc' # "panicked")

\* C22: a handler whose sends failed leaves the station and both tickers as
\* it leaves them when its sends succeed, and the loop goes on: it stops
\* only on the breakdown signal.
SendFailureNonFatal ==
  [][(pc = "running" /\ delivery'.failed # {})
     => /\ ViewNext = delivery'.clean
        /\ pc' = "stopped" => Took("breakdown")]_vars

\* C22 witness: the Complete and the Update of a completion both failed to
\* send; the next head is charging, both tickers are armed and the loop
\* runs.
CompletionSendsFailed ==
  /\ call.op = "complete_tick"
  /\ delivery.failed = {1, 2}
  /\ pc = "running"
  /\ working
  /\ IsSome(update_tiker)
  /\ IsSome(complete_tiker)

-----------------------------------------------------------------------------
(* The clock                                                               *)

\* A LazyLock cell that holds a value keeps it.
Latched(cell, next) == IsSome(cell) => next = cell

\* C23: REAL_START_TIME and MOCK_TIME are fixed at their first use, and with
\* a speed of at least 1 and a wall clock that does not go back every
\* get_mock_now() is at least every earlier one.
ClockLatchedMonotonic ==
  [][/\ Latched(clock.real_start_time, clock'.real_start_time)
     /\ Latched(clock.mock_time, clock'.mock_time)
     /\ (call.op = "get_mock_now" /\ Took("get_mock_now") /\ call' # call)
          => /\ call'.ok
             /\ Unwrap(call'.ret) >= Unwrap(call.ret)]_vars

\* C24: at speed 1 get_mock_now() is the wall clock, whatever start_time is
\* configured; at any other speed it is MOCK_TIME plus the time elapsed
\* since REAL_START_TIME times the speed, exactly.
ClockExact ==
  [][(pc = "running" /\ Took("get_mock_now") /\ call' # call)
     => /\ call'.ok
        /\ Unwrap(call'.ret) =
             IF conf.speed = 1
             THEN wall
             ELSE Unwrap(clock'.mock_time)
                    + (wall - Unwrap(clock'.real_start_time)) * conf.speed]_vars

-----------------------------------------------------------------------------
(* Activation                                                              *)

Sessions(q) == { q[i] : i \in 1..Len(q) }

\* The head after the step was started in the step.
StartedNow ==
  /\ queue' # <<>>
  /\ Head(queue').start_time = Some(get_mock_now(wall'))

\* The session d before it was started.
Unstarted(d) ==
  [d EXCEPT !.status = "Waiting", !.start_time = None,
            !.last_update_time = None]

\* The handlers that end with not_working_check.
Activating == call'.op \in {"New", "Cancel", "complete_tick"}

\* C25: the head started in a step was Waiting on a station that was idle
\* when it was started; it is Charging with start_time = last_update_time =
\* now, working is set and the sessions behind it are as they were.  The
\* handlers of New, Cancel and the completion ticker end with the attempt:
\* they never leave an idle station with a queue, and they send the Update
\* of a Charging head exactly when they started it.
ActivationOnIdle ==
  [][(pc = "running" /\ Activating)
     => /\ StartedNow
             => /\ Head(queue').status = "Charging"
                /\ Head(queue').last_update_time = Head(queue').start_time
                /\ working'
                /\ Unstarted(Head(queue')) \in Sessions(queue) \cup NewPayloads
                /\ working => Len(queue') < Len(queue)
                /\ \A i \in 2..Len(queue') :
                     /\ queue'[i].status = "Waiting"
                     /\ queue'[i] \in Sessions(queue) \cup NewPayloads
        /\ pc' = "running" => (working' <=> queue' # <<>>)
        /\ (pc' = "running" /\ StartedNow)
             => /\ sent' # <<>>
                /\ sent'[Len(sent')] = Msg("update", Some(Head(queue')))
        /\ ~StartedNow
             => \A i \in 1..Len(sent') :
                  IsSome(sent'[i].data)
                    => Unwrap(sent'[i].data).status # "Charging"]_vars

\* C25 witness: a Cancel removed the charging head and the session that
\* waited behind it was started in the same step.
CancelActivatedNext ==
  /\ call.op = "Cancel"
  /\ pc = "running"
  /\ working
  /\ Len(sent) = 2
  /\ Head(queue).status = "Charging"
  /\ Head(queue).start_time = Some(Now)

-----------------------------------------------------------------------------
(* Completion and update of the head, called directly                      *)

\* The instant of the call made in the step.
CalledAt == get_mock_now(wall')

\* Whole seconds from the start of d to `now`, the time already_charged()
\* charges for.
ChargingSecs(d, now) == (now - Unwrap(d.start_time)) \div SecMs

\* d is the session h with the progress and the costs of [start_time, now).
ProgressOf(d, h, now) ==
  /\ d.id = h.id
  /\ d.request_amount = h.request_amount
  /\ d.type_ = h.type_
  /\ d.start_time = h.start_time
  /\ d.last_update_time = Some(now)
  /\ d.already_charged = Power * ChargingSecs(h, now)
  /\ d.charge_cost = calc_price_with_tz(Unwrap(h.start_time), now, Power).v[1]
  /\ d.service_fee = calc_price_with_tz(Unwrap(h.start_time), now, Power).v[2]
  /\ d.total_cost = d.charge_cost + d.service_fee

\* C26: complete_charging on a working station removes the head, clears the
\* working flag and returns the head Completed, with end_time =
\* last_update_time = now, the energy of the time since start_time and the
\* costs of [start_time, now); the sessions behind it are as they were.
CompletionReturnsHead ==
  [][(pc = "running" /\ Took("complete_charging") /\ working)
     => /\ call'.ok
        /\ queue' = Tail(queue)
        /\ ~working'
        /\ IsSome(call'.ret)
        /\ Unwrap(call'.ret).status = "Completed"
        /\ Unwrap(call'.ret).end_time = Some(CalledAt)
        /\ ProgressOf(Unwrap(call'.ret), Head(queue), CalledAt)]_vars

\* C26 witness: a completion returned a head that had taken energy at a
\* cost and left a session in the queue.
CompletedWithOneWaiting ==
  /\ call.op = "complete_charging"
  /\ IsSome(call.ret)
  /\ Unwrap(call.ret).already_charged > 0
  /\ Unwrap(call.ret).total_cost > 0
  /\ Len(queue) = 1
  /\ ~working

\* C27: update_charging on a working station changes the head's
\* already_charged, charge_cost, service_fee, total_cost and
\* last_update_time and nothing else: the head stays Charging with its
\* start_time, and the queue behind it and the working flag are as they were.
UpdateChangesProgressOnly ==
  [][(pc = "running" /\ Took("update_charging") /\ working)
     => /\ call'.ok
        /\ working'
        /\ call'.ret = None
        /\ Len(queue') = Len(queue)
        /\ Tail(queue') = Tail(queue)
        /\ Head(queue').status = "Charging"
        /\ Head(queue').end_time = Head(queue).end_time
        /\ ProgressOf(Head(queue'), Head(queue), CalledAt)]_vars

\* C27 witness: an update refreshed a head that has taken energy at a cost,
\* with a session waiting behind it.
UpdatedWithOneWaiting ==
  /\ call.op = "update_charging"
  /\ working
  /\ Len(queue) = 2
  /\ Head(queue).already_charged > 0
  /\ Head(queue).total_cost > 0
  /\ queue[2].status = "Waiting"

-----------------------------------------------------------------------------
(* The update ticker                                                       *)

\* C28: when the update ticker fires on a working station, one update
\* message carrying the refreshed head, still Charging, is sent and the
\* completion ticker is left as it was; on an idle station nothing is sent,
\* the update ticker is removed and the station is as it was.
UpdateFire ==
  [][(pc = "running" /\ Took("update_tick"))
     => IF working
        THEN /\ pc' = "running"
             /\ working'
             /\ sent' = << Msg("update", Some(Head(queue'))) >>
             /\ Head(queue').status = "Charging"
             /\ Head(queue').last_update_time = Some(get_mock_now(wall'))
             /\ Head(queue').id = Head(queue).id
             /\ complete_tiker' = complete_tiker
        ELSE /\ pc' = "running"
             /\ sent' = <<>>
             /\ update_tiker' = None
             /\ queue' = queue
             /\ working' = working]_vars

\* C28 witness: the update ticker fired on a working station whose
\* completion ticker is armed, and the message carries the energy taken.
UpdateFiredWorking ==
  /\ call.op = "update_tick"
  /\ working
  /\ IsSome(complete_tiker)
  /\ Len(sent) = 1
  /\ sent[1].type_ = "update"
  /\ Unwrap(sent[1].data).already_charged > 0

-----------------------------------------------------------------------------
(* Close and Open                                                          *)

\* The station is idle and empty and no ticker is armed.
Shut ==
  /\ queue = <<>>
  /\ ~working
  /\ update_tiker = None
  /\ complete_tiker = None

\* C29: a Close handled while open leaves the station closed with an empty
\* queue, not working and both tickers removed, and so it stays whatever
\* comes until an Open is handled; that Open leaves the station open, idle
\* and with both tickers removed; neither changes the configured station.
ClosedUntilOpen ==
  [][/\ (pc = "running" /\ Took("Close") /\ ~is_closed) => is_closed'
     /\ is_closed' => Shut'
     /\ (is_closed /\ ~is_closed') => (pc = "running" /\ Took("Open"))
     /\ (pc = "running" /\ Took("Open") /\ is_closed) => (~is_closed' /\ Shut')
     /\ (Took("Close") \/ Took("Open")) => conf' = conf]_vars

\* C29 witness: a Close interrupted the session a working station was
\* charging and left the station closed, empty and without tickers.
CloseLeftShut ==
  /\ is_closed
  /\ call.op = "Close"
  /\ Len(sent) = 1
  /\ Unwrap(sent[1].data).status = "Interrupted"
  /\ Unwrap(sent[1].data).already_charged > 0
  /\ Shut

-----------------------------------------------------------------------------
(* The estimated end and the completion interval                           *)

\* (request_amount - already_charged) / power hours in milliseconds, cut to
\* a whole millisecond.
EstimatedMillis(d) ==
  TruncDiv(SecMs * (d.request_amount - d.already_charged), Power)

\* |a - b| <= margin
Within(a, b, margin) == a - b <= margin /\ b - a <= margin

\* complete_interval() right after a 30 kWh request was started at 30 kW
\* is an hour and the margin, divided by the acceleration factor.
HourExample(speed) ==
  LET now == get_mock_now(0)
      d   == start(NewDetail(1, 30 * HourSecs, StationType), now).d
  IN  complete_interval([queue |-> << d >>, working |-> TRUE], Power, speed, now)
        = (HourSecs * SecMs + MarginMs) \div speed

EstimatedSecs(d) ==
  SecMs * TruncDiv(d.request_amount - d.already_charged, Power)

-----------------------------------------------------------------------------
(* New sessions                                                            *)

\* The step left the station and both tickers as they were and sent nothing.
StationUntouched ==
  /\ queue' = queue
  /\ working' = working
  /\ update_tiker' = update_tiker
  /\ complete_tiker' = complete_tiker
  /\ sent' = <<>>
  /\ pc' = pc

\* C31: every session behind the head of the queue is ready: Waiting, with
\* nothing charged, no cost and no timestamp; and a New whose payload is not
\* ready leaves the station and both tickers as they were and sends nothing.
OnlyReadyEnqueued ==
  [][/\ \A i \in 2..Len(queue') : is_ready(queue'[i])
     /\ \A d \in Delays, p \in NewPayloads :
          (~is_ready(p) /\ RecvNew(d, p)) => StationUntouched]_vars

\* C31 witness: a New added a ready session behind the head of a working
\* station, whose tickers are armed.
ReadyQueuedBehindHead ==
  /\ call.op = "New"
  /\ working
  /\ Len(queue) = 2
  /\ is_ready(queue[2])
  /\ Head(queue).status = "Charging"
  /\ Head(queue).last_update_time = Head(queue).start_time
  /\ IsSome(update_tiker)
  /\ IsSome(complete_tiker)

-----------------------------------------------------------------------------
(* The price function of a table                                           *)

\* A time of day strictly inside each stretch the times of the price file
\* cut the day into.
ProbeTimes == {Hms(3, 0, 0), Hms(12, 0, 0), Hms(23, 30, 0)}

\* The periods of ps, none crossing midnight, that hold the time of day t.
Holding(ps, t) ==
  { i \in 1..Len(ps) : ps[i].start <= t /\ t < DayEnd(ps[i]) }

\* The table ps prices the time of day t at `price`: one period holds t, at
\* that price.
PricedAt(ps, t, price) ==
  /\ Cardinality(Holding(ps, t)) = 1
  /\ \A i \in Holding(ps, t) : ps[i].price = price

\* C32: when optimize succeeds, every time of day that lies inside an input
\* period is priced in the result at the price of that period, and every
\* time of day no input period holds is priced 0.
PriceFunctionPreserved ==
  [][(call'.op = "optimize" /\ call'.ok) =>
       \A t \in ProbeTimes :
         /\ \A i \in Holding(Halved(prices.periods), t) :
              PricedAt(prices'.periods, t, Halved(prices.periods)[i].price)
         /\ Holding(Halved(prices.periods), t) = {}
              => PricedAt(prices'.periods, t, 0)]_vars

-----------------------------------------------------------------------------
(* Progress of the sessions                                                *)

\* The ticker fires next unless a message comes first: UpdateTick and
\* CompleteTick are enabled exactly in these states.
UpdateDue == pc = "running" /\ Due(update_tiker, complete_tiker)
CompleteDue == pc = "running" /\ Due(complete_tiker, update_tiker)

\* The step the loop takes when the update ticker, or the completion
\* ticker, fires: in Spec only UpdateTick, or CompleteTick, records this
\* event at this time.
UpdateFires ==
  /\ UpdateDue
  /\ call' = Handled("update_tick")
  /\ wall' = Unwrap(update_tiker).next

CompleteFires ==
  /\ CompleteDue
  /\ call' = Handled("complete_tick")
  /\ wall' = Unwrap(complete_tiker).next

\* tokio delivers the tick of an armed Interval once its deadline has
\* passed, and select! in work() then takes the branch of that ticker: weak
\* fairness of the two ticker branches.
Fairness ==
  /\ WF_<<call, wall>>(UpdateFires)
  /\ WF_<<call, wall>>(CompleteFires)

SpecFair == Spec /\ Fairness

\* A session with this id is in the queue.
Queued(id) == \E i \in 1..Len(queue) : queue[i].id = id

\* A session with this id is Charging.
ChargingNow(id) ==
  \E i \in 1..Len(queue) : queue[i].id = id /\ queue[i].status = "Charging"

\* The run is over: the loop was ended by the breakdown signal or by the
\* connection, or the completion the station waits for lies beyond the
\* time the runs last.
RunOver ==
  \/ pc = "stopped"
  \/ IsSome(complete_tiker) /\ Unwrap(complete_tiker).next > MaxWall

\* C33: while the loop is not ended by the breakdown signal or by the
\* connection, a session that is Charging is eventually out of the queue
\* (Completed or Interrupted), and so is every session in the queue.
SessionsLeave ==
  \A id \in 1..MaxId :
    /\ ChargingNow(id) ~> (~ChargingNow(id) \/ RunOver)
    /\ Queued(id) ~> (~Queued(id) \/ RunOver)

-----------------------------------------------------------------------------
(* The tickers between two handled events                                  *)

\* C34: between two handled events, a working station has both its update
\* ticker and its completion ticker armed.
WorkingHasTickers ==
  (pc = "running" /\ working) =>
    (IsSome(update_tiker) /\ IsSome(complete_tiker))

\* C34 witness: the completion ticker fired, the head was completed and the
\* session behind it was started, with both tickers armed anew.
TickersArmedForNext ==
  /\ pc = "running"
  /\ call.op = "complete_tick"
  /\ working
  /\ Len(sent) = 2
  /\ update_tiker = Some(Ticker(wall + UpdateInterval, UpdateInterval))
  /\ IsSome(complete_tiker)
  /\ Unwrap(complete_tiker).ticks = 0

\* C36: between two handled events, an idle station has neither its update
\* ticker nor its completion ticker armed.
IdleHasNoTickers ==
  (pc = "running" /\ ~working) =>
    (update_tiker = None /\ complete_tiker = None)

\* The real time at which the ticker t was armed.
ArmedAt(t) == Unwrap(t).next - (Unwrap(t).ticks + 1) * Unwrap(t).period

\* C35: the completion ticker whose fire completes a session was armed when
\* that session was started, with the completion interval of that session.
CompletionTickerOfHead ==
  [][(pc = "running" /\ Took("complete_tick") /\ working)
     => /\ Head(queue).start_time = Some(get_mock_now(ArmedAt(complete_tiker)))
        /\ Unwrap(complete_tiker).period
             = (SecMs * TruncDiv(Head(queue).request_amount, Power) + MarginMs)
                 \div conf.speed]_vars

\* C35 witness: the completion ticker fired and completed a session that
\* was started when the third message was handled.
CompletedLaterHead ==
  /\ call.op = "complete_tick"
  /\ nmsg = 3
  /\ Len(sent) = 1
  /\ sent[1].type_ = "complete"
  /\ Unwrap(sent[1].data).id = 2
  /\ Unwrap(sent[1].data).start_time = Some(get_mock_now(4500))
  /\ Unwrap(sent[1].data).already_charged > 0

-----------------------------------------------------------------------------
(* Messages to a closed station                                            *)

\* C37: a New or a Cancel handled while the station is closed changes
\* nothing: no session is enqueued or removed, no ticker is armed and no
\* message is sent, and the station stays closed.
ClosedIgnoresRequests ==
  [][(pc = "running" /\ is_closed /\ (Took("New") \/ Took("Cancel")))
     => (StationUntouched /\ is_closed')]_vars

\* C37 witness: a New was handled as the third message, after a Close, and
\* the closed station is still empty, without tickers.
NewIgnoredWhileClosed ==
  /\ is_closed
  /\ pc = "running"
  /\ call.op = "New"
  /\ nmsg = 3
  /\ Shut
  /\ sent = <<>>

-----------------------------------------------------------------------------
(* First in, first out                                                     *)

\* The fields of a session that no operation changes.
SameSession(a, b) ==
  /\ a.id = b.id
  /\ a.type_ = b.type_
  /\ a.request_amount = b.request_amount

\* The queue q holds, position by position, the sessions of the queue r.
SameSessions(q, r) ==
  /\ Len(q) = Len(r)
  /\ \A i \in 1..Len(q) : SameSession(q[i], r[i])

\* The step leaves the sessions in the order they were accepted in: it
\* keeps them all, or accepts one at the back, or takes some out.
KeepsAcceptanceOrder ==
  \/ SameSessions(queue, queue')
  \/ /\ queue' # <<>>
     /\ SameSessions(queue, SubSeq(queue', 1, Len(queue') - 1))
  \/ \E pos \in 1..Len(queue) : SameSessions(RemoveAt(queue, pos), queue')
  \/ queue' = <<>>

\* The session at position i after the step is Charging and was not
\* Charging before the step.
BecomesCharging(i) ==
  /\ queue'[i].status = "Charging"
  /\ ~ \E j \in 1..Len(queue) :
         SameSession(queue[j], queue'[i]) /\ queue[j].status = "Charging"

\* C38: the queue is in the order of acceptance at every step (a session
\* is accepted at the back, and the sessions that stay keep their order),
\* and a session that becomes Charging is at the front of the queue: no
\* session accepted before it is still queued.
FirstInFirstOut ==
  [][/\ KeepsAcceptanceOrder
     /\ \A i \in 1..Len(queue') : BecomesCharging(i) => i = 1]_vars

\* C38 witness: start_charging started the earlier of two queued sessions,
\* and the later one is waiting behind it.
StartedAheadOfWaiting ==
  /\ call.op = "start_charging"
  /\ working
  /\ Len(queue) = 2
  /\ queue[1].status = "Charging"
  /\ queue[1].start_time = Some(get_mock_now(wall))
  /\ queue[2].status = "Waiting"

-----------------------------------------------------------------------------
(* The energy of a completed session                                       *)

\* C39: a session completed by the first fire of its completion ticker,
\* the armed interval after it was started, is reported with an
\* already_charged of at least its request_amount.
CompletedInFull ==
  [][(/\ pc = "running"
      /\ working
      /\ Took("complete_tick")
      /\ Unwrap(complete_tiker).ticks = 0
      /\ sent' # <<>>)
     => \A i \in 1..Len(sent') :
          sent'[i].type_ = "complete" =>
            Unwrap(sent'[i].data).already_charged
              >= Unwrap(sent'[i].data).request_amount]_vars

-----------------------------------------------------------------------------
(* The figures reported for one session                                    *)

\* The message m reports the session d.
Reports(m, d) ==
  /\ m.data # None
  /\ Unwrap(m.data).id = d.id
  /\ Unwrap(m.data).start_time = d.start_time

\* Each of the four figures of a is at least that of b.
NotBelow(a, b) ==
  /\ a.already_charged >= b.already_charged
  /\ a.charge_cost >= b.charge_cost
  /\ a.service_fee >= b.service_fee
  /\ a.total_cost >= b.total_cost

\* C40: the head of a working station holds the figures last reported for
\* it (an Update message carries the figures the head is left with), and
\* every message a step sends about that session, an Update or its Complete
\* or interrupt report, carries an already_charged, charge_cost, service_fee
\* and total_cost at least as large as the ones the head held before.
ReportsNeverDecrease ==
  [][\A i \in 1..Len(sent') :
       /\ (working /\ Reports(sent'[i], Head(queue)))
            => NotBelow(Unwrap(sent'[i].data), Head(queue))
       /\ (working' /\ sent'[i].type_ = "update"
                    /\ Reports(sent'[i], Head(queue')))
            => /\ NotBelow(Unwrap(sent'[i].data), Head(queue'))
               /\ NotBelow(Head(queue'), Unwrap(sent'[i].data))]_vars

\* C40 witness: a session of 1500 s was reported complete, in full and with
\* a positive cost, after the Updates of its charging time.
CompleteAfterUpdate ==
  /\ call.op = "complete_tick"
  /\ sent # <<>>
  /\ sent[1].type_ = "complete"
  /\ Unwrap(sent[1].data).already_charged = 45000
  /\ Unwrap(sent[1].data).charge_cost > 0
  /\ Unwrap(sent[1].data).service_fee > 0
  /\ Unwrap(sent[1].data).total_cost > 0
====
